---- MODULE Spec2Model ----
(***************************************************************************)
(* A model of the SolProof analysis pipeline: the transaction fetcher with *)
(* its retry loop and cache, the transaction classifier, the binary        *)
(* profiler, the score fusion stages, the report composer and the          *)
(* orchestrator's timeout wrapper.                                         *)
(***************************************************************************)
EXTENDS Integers, Sequences, FiniteSets, TLC

\* ------------------------------------------------------------------------
\* Well-known program identifiers (src/src/lib/transactions.js:222-246).
\* ------------------------------------------------------------------------
GOVERNANCE_PROGRAM == "GovER5Lthms3bLBqWub97yVrMmEogzX7xNjdXpPPCVZw"
SMPL_PROGRAM == "SMPLecHpvtyTWca6gwQLoCFN33w41rmatZTxM4W3fS7"
TOKEN_PROGRAM == "TokenkegQfeZyiNwAJbNbGKPFXCWuBvf9Ss623VQ5DA"
RAYDIUM_PROGRAM == "675kPX9MHTjS2zt1qfr1NYHuzeLXfQM9H24wFSUt1Mp8"
PUMP_PROGRAM == "pAMMBay6oceH9fJKBRHGP5D4bD4sWpmSwMn52FMfXEA"
METADATA_PROGRAM == "metaqbxxUerdq28cj1RbAWkYQm3ybzjb6a8bt518x1s"
\* An analyzed program that is none of the well-known ones, and a program
\* that is neither well known nor the analyzed one.
PROGRAM_A == "ProgramA1111111111111111111111111111111111"
OTHER_PROGRAM == "Other11111111111111111111111111111111111111"

ProgramIds ==
  {GOVERNANCE_PROGRAM, SMPL_PROGRAM, TOKEN_PROGRAM, RAYDIUM_PROGRAM,
   PUMP_PROGRAM, METADATA_PROGRAM, PROGRAM_A, OTHER_PROGRAM}

\* The program addresses an analysis is run for.
AnalyzedAddresses == {PROGRAM_A, RAYDIUM_PROGRAM, GOVERNANCE_PROGRAM}

\* ix.parsed?.type; "none" stands for an instruction without parsed data.
ParsedTypes ==
  {"none", "createProposal", "vote", "transfer", "mint", "burn", "mintNFT",
   "approve"}

\* The value of a null / undefined reference.
NULL == [null |-> TRUE]

Max(a, b) == IF a >= b THEN a ELSE b
Min(a, b) == IF a <= b THEN a ELSE b
Abs(a) == IF a >= 0 THEN a ELSE 0 - a
Bit(b) == IF b THEN 1 ELSE 0

\* Array.prototype.filter and friends over sequences.
RECURSIVE SelectIdx(_, _, _)
SelectIdx(s, Test(_), i) ==
  IF i > Len(s) THEN <<>>
  ELSE (IF Test(s[i]) THEN <<s[i]>> ELSE <<>>) \o SelectIdx(s, Test, i + 1)
Filter(s, Test(_)) == SelectIdx(s, Test, 1)
Some(s, Test(_)) == \E i \in 1..Len(s) : Test(s[i])
\* Array.prototype.find: the first element that passes the test.
Find(s, Test(_)) == Filter(s, Test)[1]

\* Sequences over S of length at most n.
SeqUpTo(S, n) == UNION {[1..k -> S] : k \in 0..n}

\* ------------------------------------------------------------------------
\* Transaction classification (src/src/lib/transactions.js:217-257).
\* ------------------------------------------------------------------------
MaxIx == 2

IsGovernanceIx(ix) ==
  \/ ix.programId = GOVERNANCE_PROGRAM
  \/ ix.programId = SMPL_PROGRAM
  \/ ix.ptype = "createProposal"
  \/ ix.ptype = "vote"
IsTokenIx(ix) == ix.programId = TOKEN_PROGRAM
IsSwapIx(ix, programAddress) ==
  ix.programId \in {RAYDIUM_PROGRAM, PUMP_PROGRAM, programAddress}
IsNftIx(ix) == ix.programId = METADATA_PROGRAM \/ ix.ptype = "mintNFT"
IsSelfIx(ix, programAddress) == ix.programId = programAddress

\* Mutant: the swap rule looks for the two venues only.
AfterTokenRuleVenuesOnly(instructions, programAddress) ==
  IF Some(instructions,
          LAMBDA ix : ix.programId \in {RAYDIUM_PROGRAM, PUMP_PROGRAM})
  THEN "swap"
  ELSE IF Some(instructions, IsNftIx) THEN "nft_mint"
  ELSE IF Some(instructions, LAMBDA ix : IsSelfIx(ix, programAddress))
  THEN "custom"
  ELSE "unknown"

\* The rules after the token rule: swap, nft, custom, unknown.
AfterTokenRule(instructions, programAddress) ==
  IF Some(instructions, LAMBDA ix : IsSwapIx(ix, programAddress))
  THEN "swap"
  ELSE IF Some(instructions, IsNftIx) THEN "nft_mint"
  ELSE IF Some(instructions, LAMBDA ix : IsSelfIx(ix, programAddress))
  THEN "custom"
  ELSE "unknown"

\* Mutant: the swap rule is tried before the governance and token rules.
inferTransactionTypeSwapFirst(parsedTx, programAddress) ==
  IF parsedTx = NULL THEN "unknown"
  ELSE LET instructions == parsedTx.instructions IN
    IF Some(instructions, LAMBDA ix : IsSwapIx(ix, programAddress))
    THEN "swap"
    ELSE IF Some(instructions, IsGovernanceIx) THEN "governance"
    ELSE IF /\ Some(instructions, IsTokenIx)
            /\ Find(instructions, IsTokenIx).ptype \in
                 {"transfer", "mint", "burn"}
    THEN Find(instructions, IsTokenIx).ptype
    ELSE AfterTokenRule(instructions, programAddress)

inferTransactionType(parsedTx, programAddress) ==
  IF parsedTx = NULL THEN "unknown"
  ELSE LET instructions == parsedTx.instructions IN
    IF Some(instructions, IsGovernanceIx) THEN "governance"
    ELSE IF /\ Some(instructions, IsTokenIx)
            /\ Find(instructions, IsTokenIx).ptype \in
                 {"transfer", "mint", "burn"}
    THEN Find(instructions, IsTokenIx).ptype
    ELSE AfterTokenRule(instructions, programAddress)


\* ------------------------------------------------------------------------
\* Economic aggregation (src/src/lib/transactions.js:60-104, 265-330).
\* Amounts are integers in thousandths of a SOL (or of a token); a parsed
\* transfer's info.amount is given already divided by 10^decimals.
\* A quotient a/b that the code keeps as a float is the pair <<a, b>>.
\* ------------------------------------------------------------------------
SolUnit == 1000

Frac(num, den) == IF num = 0 THEN <<0, 1>> ELSE <<num, den>>

RECURSIVE SumOver(_, _, _)
SumOver(s, F(_), i) ==
  IF i > Len(s) THEN 0 ELSE F(s[i]) + SumOver(s, F, i + 1)
Sum(s, F(_)) == SumOver(s, F, 1)

\* The same with every transaction flagged non-standard.
MakeTransactionAllNonStandard(sig, parsedTx, address) ==
  [signature |-> sig,
   instructions |-> IF parsedTx = NULL THEN <<>> ELSE parsedTx.instructions,
   isNonStandard |-> TRUE,
   type |-> inferTransactionType(parsedTx, address),
   details |-> parsedTx,
   volumeSOL |-> IF parsedTx = NULL THEN 0
                 ELSE Abs(parsedTx.pre - parsedTx.post),
   fee |-> IF parsedTx = NULL THEN 0 ELSE parsedTx.fee]

\* One element of the transactions array (lines 60-72): parsedTx is NULL
\* when the chain does not know the signature.
MakeTransaction(sig, parsedTx, address) ==
  [signature |-> sig,
   instructions |-> IF parsedTx = NULL THEN <<>> ELSE parsedTx.instructions,
   isNonStandard |->
     IF parsedTx = NULL THEN TRUE
     ELSE ~Some(parsedTx.instructions, IsTokenIx),
   type |-> inferTransactionType(parsedTx, address),
   details |-> parsedTx,
   volumeSOL |-> IF parsedTx = NULL THEN 0
                 ELSE Abs(parsedTx.pre - parsedTx.post),
   fee |-> IF parsedTx = NULL THEN 0 ELSE parsedTx.fee]

\* The flow an instruction contributes (lines 275-308), <<>> when none,
\* otherwise <<[dir, account, amount, mint, flowType]>>.
FlowOfInstruction(tx, ix, address) ==
  LET accs == ix.accounts
      raw ==
        IF ix.programId = TOKEN_PROGRAM /\ ix.ptype = "transfer"
        THEN [flowType |-> "transfer", source |-> ix.info.source,
              destination |-> ix.info.destination,
              amount |-> ix.info.amount, mint |-> ix.info.mint]
        ELSE IF tx.type \in {"swap", "custom"} /\ Len(accs) >= 2
        THEN [flowType |-> "swap", source |-> accs[1],
              destination |-> accs[2],
              amount |-> IF tx.volumeSOL # 0 THEN tx.volumeSOL ELSE SolUnit,
              mint |-> IF ix.info # NULL /\ ix.info.mint # "undefined"
                       THEN ix.info.mint ELSE "SOL"]
        ELSE IF tx.type = "governance" /\ Len(accs) >= 1
        THEN [flowType |-> "vote", source |-> accs[1],
              destination |-> address, amount |-> SolUnit,
              mint |-> "GOVERNANCE"]
        ELSE IF tx.type = "nft_mint" /\ ix.info # NULL
                /\ ix.info.mint # "undefined"
        THEN [flowType |-> "nft_mint", source |-> address,
              destination |->
                IF ix.info.mintAuthority # "undefined"
                THEN ix.info.mintAuthority
                ELSE IF Len(accs) >= 1 THEN accs[1] ELSE "undefined",
              amount |-> SolUnit, mint |-> ix.info.mint]
        ELSE [flowType |-> "none", source |-> "undefined",
              destination |-> "undefined", amount |-> 0,
              mint |-> "undefined"]
  IN IF raw.flowType = "none" \/ raw.source = "undefined"
        \/ raw.destination = "undefined"
     THEN <<>>
     ELSE IF raw.source = address
     THEN <<[dir |-> "out", account |-> raw.destination,
             amount |-> raw.amount, mint |-> raw.mint,
             flowType |-> raw.flowType]>>
     ELSE IF raw.destination = address
     THEN <<[dir |-> "in", account |-> raw.source,
             amount |-> raw.amount, mint |-> raw.mint,
             flowType |-> raw.flowType]>>
     ELSE <<>>

RECURSIVE FlowsOfInstructions(_, _, _, _)
FlowsOfInstructions(tx, ixs, address, i) ==
  IF i > Len(ixs) THEN <<>>
  ELSE FlowOfInstruction(tx, ixs[i], address)
         \o FlowsOfInstructions(tx, ixs, address, i + 1)

RECURSIVE FlowsOfTransactions(_, _, _)
FlowsOfTransactions(transactions, address, i) ==
  IF i > Len(transactions) THEN <<>>
  ELSE (IF transactions[i].details = NULL THEN <<>>
        ELSE FlowsOfInstructions(transactions[i],
                                 transactions[i].instructions, address, 1))
         \o FlowsOfTransactions(transactions, address, i + 1)

\* A parsed token transfer without an info object makes the destructuring
\* at line 279 throw.
FlowsThrow(transactions) ==
  \E i \in 1..Len(transactions) :
    /\ transactions[i].details # NULL
    /\ \E k \in 1..Len(transactions[i].instructions) :
         LET ix == transactions[i].instructions[k] IN
           ix.programId = TOKEN_PROGRAM /\ ix.ptype = "transfer"
             /\ ix.info = NULL

SameFlowKey(a, b) ==
  a.account = b.account /\ a.mint = b.mint /\ a.flowType = b.flowType

\* flows.reduce(...) of aggregateFlows (lines 313-320): one group per key,
\* in order of first appearance.
RECURSIVE GroupFlows(_, _, _)
GroupFlows(flows, acc, i) ==
  IF i > Len(flows) THEN acc
  ELSE LET f == flows[i]
           hit == {k \in 1..Len(acc) : SameFlowKey(acc[k], f)}
       IN IF hit = {}
          THEN GroupFlows(flows,
                 Append(acc, [account |-> f.account, mint |-> f.mint,
                              flowType |-> f.flowType, amount |-> f.amount,
                              txCount |-> 1]), i + 1)
          ELSE LET k == CHOOSE k \in hit : TRUE IN
               GroupFlows(flows,
                 [acc EXCEPT ![k].amount = @ + f.amount,
                             ![k].txCount = @ + 1], i + 1)

\* .sort((a, b) => b.amount - a.amount): stable, descending by amount.
RECURSIVE InsertDesc(_, _)
InsertDesc(sorted, g) ==
  IF sorted = <<>> THEN <<g>>
  ELSE IF sorted[1].amount >= g.amount
  THEN <<sorted[1]>> \o InsertDesc(Tail(sorted), g)
  ELSE <<g>> \o sorted
RECURSIVE SortDesc(_, _, _)
SortDesc(groups, acc, i) ==
  IF i > Len(groups) THEN acc
  ELSE SortDesc(groups, InsertDesc(acc, groups[i]), i + 1)

aggregateFlows(flows) == SortDesc(GroupFlows(flows, <<>>, 1), <<>>, 1)

TopFlows == 5
Slice(s, n) == SubSeq(s, 1, Min(n, Len(s)))

analyzeTokenFlows(transactions, address) ==
  LET flows == FlowsOfTransactions(transactions, address, 1)
      outflows == Filter(flows, LAMBDA f : f.dir = "out")
      inflows == Filter(flows, LAMBDA f : f.dir = "in")
      topOutflows == Slice(aggregateFlows(outflows), TopFlows)
      topInflows == Slice(aggregateFlows(inflows), TopFlows)
  IN [topOutflows |-> topOutflows,
      topInflows |-> topInflows,
      \* top[0].amount > 0.8 * sum, in integers
      concentrationRisk |->
        /\ Len(topOutflows) > 0
        /\ 5 * topOutflows[1].amount
             > 4 * Sum(topOutflows, LAMBDA f : f.amount)]

TypeBucket(transactions, kinds) ==
  LET sel == Filter(transactions, LAMBDA tx : tx.type \in kinds)
  IN [count |-> Len(sel), volumeSOL |-> Sum(sel, LAMBDA tx : tx.volumeSOL)]

\* economicInsights (lines 78-104).  stdDevVolumeSOL is kept as the
\* variance it is the root of; highVolatility compares the squares.
EconomicInsights(transactions, address) ==
  LET n == Len(transactions)
      S == Sum(transactions, LAMBDA tx : tx.volumeSOL)
      dev == Sum(transactions,
                 LAMBDA tx : (n * tx.volumeSOL - S) * (n * tx.volumeSOL - S))
  IN [totalVolumeSOL |-> S,
      averageFeeSOL |->
        Frac(Sum(transactions, LAMBDA tx : tx.fee), Max(n, 1)),
      transactionCount |-> n,
      transactionTypes |->
        [swaps |-> TypeBucket(transactions, {"swap"}),
         transfers |-> TypeBucket(transactions, {"transfer"}),
         mints |-> TypeBucket(transactions, {"mint"}),
         burns |-> TypeBucket(transactions, {"burn"}),
         governance |-> TypeBucket(transactions, {"governance"}),
         nftMints |-> TypeBucket(transactions, {"nft_mint"}),
         others |-> TypeBucket(transactions, {"unknown", "custom"})],
      suspiciousVolume |->
        Sum(Filter(transactions, LAMBDA tx : tx.isNonStandard),
            LAMBDA tx : tx.volumeSOL),
      tokenFlowInsights |-> analyzeTokenFlows(transactions, address),
      transactionVolumeAnalysis |->
        [meanVolumeSOL |-> Frac(S, Max(n, 1)),
         stdDevVolumeSOL |-> Frac(dev, Max(n * n * n, 1)),
         highVolatility |-> 4 * dev > n * S * S]]

ZeroBucket == [count |-> 0, volumeSOL |-> 0]

createFallback ==
  [transactions |-> <<>>,
   economicInsights |->
     [totalVolumeSOL |-> 0,
      averageFeeSOL |-> <<0, 1>>,
      transactionCount |-> 0,
      transactionTypes |->
        [swaps |-> ZeroBucket, transfers |-> ZeroBucket,
         mints |-> ZeroBucket, burns |-> ZeroBucket,
         governance |-> ZeroBucket, nftMints |-> ZeroBucket,
         others |-> ZeroBucket],
      suspiciousVolume |-> 0,
      tokenFlowInsights |->
        [topOutflows |-> <<>>, topInflows |-> <<>>,
         concentrationRisk |-> FALSE],
      transactionVolumeAnalysis |->
        [meanVolumeSOL |-> <<0, 1>>, stdDevVolumeSOL |-> <<0, 1>>,
         highVolatility |-> FALSE]]]

VARIABLES
  cl_parsedTx,   \* the parsed transaction handed to inferTransactionType
  cl_address,    \* the analyzed program's address
  cl_type        \* the returned kind, "pending" before the call

clVars == <<cl_parsedTx, cl_address, cl_type>>

\* Instructions as inferTransactionType reads them: program id, parsed type.
ClassifierInstructions ==
  [programId : ProgramIds, ptype : ParsedTypes, accounts : {<<>>},
   info : {NULL}]
ClassifierInputs ==
  {NULL} \cup
  {[instructions |-> ixs, pre |-> 0, post |-> 0, fee |-> 0] :
     ixs \in SeqUpTo(ClassifierInstructions, MaxIx)}

ClIdle ==
  /\ cl_parsedTx = NULL
  /\ cl_address = PROGRAM_A
  /\ cl_type = "pending"

ClStart ==
  /\ cl_parsedTx \in ClassifierInputs
  /\ cl_address \in AnalyzedAddresses
  /\ cl_type = "pending"

Classify ==
  /\ cl_type = "pending"
  /\ cl_type' = inferTransactionType(cl_parsedTx, cl_address)
  /\ UNCHANGED <<cl_parsedTx, cl_address>>

\* ------------------------------------------------------------------------
\* getRecentTransactions (src/src/lib/transactions.js:25-120).
\* ------------------------------------------------------------------------
maxRetries == 5
retryDelaysLinear == <<1000, 2000, 3000, 4000, 5000>>
retryDelays == <<1000, 2000, 4000, 8000, 16000>>

\* Concurrent invocations of getRecentTransactions.
Calls == {"call1", "call2"}

\* Cache keys tx_${address}_${limit}_${timeframe}.
Keys ==
  {[address |-> PROGRAM_A, limit |-> 1, timeframe |-> "7d"],
   [address |-> PROGRAM_A, limit |-> 2, timeframe |-> "7d"]}

\* What the chain holds: signatures and the parsed transaction of each.
Signatures == {"sigTransfer", "sigSwap", "sigOther"}
Chain(sig) ==
  CASE sig = "sigTransfer" ->
         [instructions |->
            <<[programId |-> TOKEN_PROGRAM, ptype |-> "transfer",
               accounts |-> <<"WalletSrc", "WalletDst">>,
               info |-> [source |-> PROGRAM_A, destination |-> "WalletDst",
                         amount |-> 500, mint |-> "undefined",
                         mintAuthority |-> "undefined"]]>>,
          pre |-> 5000, post |-> 3000, fee |-> 5]
    [] sig = "sigSwap" ->
         [instructions |->
            <<[programId |-> RAYDIUM_PROGRAM, ptype |-> "none",
               accounts |-> <<PROGRAM_A, "WalletDst">>, info |-> NULL]>>,
          pre |-> 1000, post |-> 1000, fee |-> 5]
    [] OTHER ->
         [instructions |->
            <<[programId |-> OTHER_PROGRAM, ptype |-> "none",
               accounts |-> <<"WalletSrc">>, info |-> NULL]>>,
          pre |-> 1000, post |-> 2000, fee |-> 10]

\* The lists the data source may answer with for a given limit.
MaxTxs == 2
FetchedLists(limit) ==
  {l \in SeqUpTo(Signatures, Min(limit, MaxTxs)) :
     \A i, j \in 1..Len(l) : i # j => l[i] # l[j]}

\* What one fetch attempt can meet before the transaction list is parsed.
FetchFailures == {"429", "notOK", "nonArray"}

VARIABLES
  apiKey,     \* process.env.HELIUS_API_KEY is set
  cache,      \* the module's NodeCache: key -> cached result or NULL
  pc,         \* where each call stands
  key,        \* the cache key of each call
  attempt,    \* the loop variable of the retry loop
  waits,      \* the backoff delays each call has slept, in order
  fetches,    \* the number of fetchWithLimit(url) requests each call made
  outcome,    \* how the current attempt went so far
  txs,        \* the list the data source returned in the current attempt
  parsed,     \* the parsed transaction of each list entry, NULL if unknown
  ret,        \* the value the call returned
  via         \* the return statement taken: cache, computed or fallback

ftVars == <<apiKey, cache, pc, key, attempt, waits, fetches, outcome, txs,
            parsed, ret, via>>

FtIdle ==
  /\ apiKey = TRUE
  /\ cache = [k \in Keys |-> NULL]
  /\ pc = [c \in Calls |-> "idle"]
  /\ key = [c \in Calls |-> CHOOSE k \in Keys : k.limit = 1]
  /\ attempt = [c \in Calls |-> 0]
  /\ waits = [c \in Calls |-> <<>>]
  /\ fetches = [c \in Calls |-> 0]
  /\ outcome = [c \in Calls |-> "none"]
  /\ txs = [c \in Calls |-> <<>>]
  /\ parsed = [c \in Calls |-> <<>>]
  /\ ret = [c \in Calls |-> NULL]
  /\ via = [c \in Calls |-> "none"]

FtStart ==
  /\ apiKey \in BOOLEAN
  /\ cache = [k \in Keys |-> NULL]
  /\ pc = [c \in Calls |-> "idle"]
  /\ key \in [Calls -> Keys]
  /\ attempt = [c \in Calls |-> 0]
  /\ waits = [c \in Calls |-> <<>>]
  /\ fetches = [c \in Calls |-> 0]
  /\ outcome = [c \in Calls |-> "none"]
  /\ txs = [c \in Calls |-> <<>>]
  /\ parsed = [c \in Calls |-> <<>>]
  /\ ret = [c \in Calls |-> NULL]
  /\ via = [c \in Calls |-> "none"]

\* The lookup done without the request parameters in the key: any live entry
\* is returned.
StartCallAnyKey(c) ==
  /\ pc[c] = "idle"
  /\ IF ~apiKey
     THEN /\ pc' = [pc EXCEPT ![c] = "raised"]
          /\ UNCHANGED <<ret, via>>
     ELSE IF \E k \in Keys : cache[k] # NULL
     THEN /\ pc' = [pc EXCEPT ![c] = "done"]
          /\ \E k \in Keys :
               /\ cache[k] # NULL
               /\ ret' = [ret EXCEPT ![c] = cache[k]]
          /\ via' = [via EXCEPT ![c] = "cache"]
     ELSE /\ pc' = [pc EXCEPT ![c] = "fetch"]
          /\ UNCHANGED <<ret, via>>
  /\ UNCHANGED <<apiKey, cache, key, attempt, waits, fetches, outcome, txs,
                 parsed>>

\* Lines 26-36: the credential check, the cache lookup, the loop entry.
StartCall(c) ==
  /\ pc[c] = "idle"
  /\ IF ~apiKey
     THEN /\ pc' = [pc EXCEPT ![c] = "raised"]
          /\ UNCHANGED <<ret, via>>
     ELSE IF cache[key[c]] # NULL
     THEN /\ pc' = [pc EXCEPT ![c] = "done"]
          /\ ret' = [ret EXCEPT ![c] = cache[key[c]]]
          /\ via' = [via EXCEPT ![c] = "cache"]
     ELSE /\ pc' = [pc EXCEPT ![c] = "fetch"]
          /\ UNCHANGED <<ret, via>>
  /\ UNCHANGED <<apiKey, cache, key, attempt, waits, fetches, outcome, txs,
                 parsed>>

\* A failed attempt, by the 429 branch (lines 41-45) or the catch block
\* (lines 109-115): the last attempt returns the fallback, any other one
\* sleeps retryDelays[attempt].
FailAttempt(c) ==
  IF attempt[c] = maxRetries
  THEN /\ pc' = [pc EXCEPT ![c] = "done"]
       /\ ret' = [ret EXCEPT ![c] = createFallback]
       /\ via' = [via EXCEPT ![c] = "fallback"]
       /\ UNCHANGED waits
  ELSE /\ pc' = [pc EXCEPT ![c] = "wait"]
       /\ waits' = [waits EXCEPT ![c] = Append(@, retryDelays[attempt[c] + 1])]
       /\ UNCHANGED <<ret, via>>

\* Line 40-49: the request for the transaction list fails.
FetchFails(c, failure) ==
  /\ pc[c] = "fetch"
  /\ fetches' = [fetches EXCEPT ![c] = @ + 1]
  /\ outcome' = [outcome EXCEPT ![c] = failure]
  /\ FailAttempt(c)
  /\ UNCHANGED <<apiKey, cache, key, attempt, txs, parsed>>

\* Lines 40-49: the request answers with an array of transactions.
FetchSucceeds(c, list) ==
  /\ pc[c] = "fetch"
  /\ fetches' = [fetches EXCEPT ![c] = @ + 1]
  /\ outcome' = [outcome EXCEPT ![c] = "listed"]
  /\ txs' = [txs EXCEPT ![c] = list]
  /\ parsed' = [parsed EXCEPT ![c] = <<>>]
  /\ pc' = [pc EXCEPT ![c] = "parse"]
  /\ UNCHANGED <<apiKey, cache, key, attempt, waits, ret, via>>

\* Lines 52-59: a getParsedTransaction request rejects, Promise.all rejects.
ParseFails(c) ==
  /\ pc[c] = "parse"
  /\ txs[c] # <<>>
  /\ outcome' = [outcome EXCEPT ![c] = "parseFailed"]
  /\ FailAttempt(c)
  /\ UNCHANGED <<apiKey, cache, key, attempt, fetches, txs, parsed>>

\* The value built at lines 60-106.
ResultAlwaysFallback(list, parsedTxs, address) == createFallback
ComputedResult(list, parsedTxs, address) ==
  LET transactions ==
        [i \in 1..Len(list) |-> MakeTransaction(list[i], parsedTxs[i], address)]
  IN [transactions |-> transactions,
      economicInsights |-> EconomicInsights(transactions, address)]

\* Lines 52-108: every parse request resolves (to the parsed transaction or
\* to null), the insights are computed, cached and returned.
ParseSucceeds(c, known) ==
  /\ pc[c] = "parse"
  /\ LET parsedTxs == [i \in 1..Len(txs[c]) |->
                         IF i \in known THEN Chain(txs[c][i]) ELSE NULL]
         result == ComputedResult(txs[c], parsedTxs, key[c].address)
     IN /\ parsed' = [parsed EXCEPT ![c] = parsedTxs]
        /\ cache' = [cache EXCEPT ![key[c]] = result]
        /\ ret' = [ret EXCEPT ![c] = result]
  /\ outcome' = [outcome EXCEPT ![c] = "ok"]
  /\ via' = [via EXCEPT ![c] = "computed"]
  /\ pc' = [pc EXCEPT ![c] = "done"]
  /\ UNCHANGED <<apiKey, key, attempt, waits, fetches, txs>>

\* Lines 43, 114 and 38: the backoff timer fires, the loop goes on.
BackoffElapsed(c) ==
  /\ pc[c] = "wait"
  /\ attempt' = [attempt EXCEPT ![c] = @ + 1]
  /\ pc' = [pc EXCEPT ![c] = "fetch"]
  /\ UNCHANGED <<apiKey, cache, key, waits, fetches, outcome, txs, parsed,
                 ret, via>>

\* Line 10: a cache entry outlives its stdTTL and is dropped.
CacheExpires(k) ==
  /\ cache[k] # NULL
  /\ cache' = [cache EXCEPT ![k] = NULL]
  /\ UNCHANGED <<apiKey, pc, key, attempt, waits, fetches, outcome, txs,
                 parsed, ret, via>>




\* ------------------------------------------------------------------------
\* withTimeout (src/src/cli.js:180-192 and 1457-1469,
\* src/unnamed/part_000:102-114).
\* ------------------------------------------------------------------------
TimeoutMs == 5000
\* Time advances in steps of TickMs, up to MaxElapsedTicks steps.
TickMs == 1000
MaxElapsedTicks == 7

\* The two bodies: the CLI one returns result, the server one
\* result || fallback.
WtVariants == {"cli", "server"}
\* What the wrapped function does: resolve, reject, throw before its first
\* await, or never settle.
WtFnKinds == {"resolves", "rejects", "throws", "hangs"}
\* The call sites: a stage returning an object, with an object fallback,
\* and getAccountInfo, which may resolve to null, with fallback null.
WtSites ==
  {[result |-> "stageValue", fallback |-> "neutralFallback"],
   [result |-> "accountInfo", fallback |-> "null"],
   [result |-> "null", fallback |-> "null"]}

VARIABLES
  wt_variant,  \* which body of withTimeout runs
  wt_fn,       \* how the wrapped function behaves
  wt_site,     \* the wrapped function's result and the fallback argument
  wt_pc,       \* "init", "awaiting" (at the await of fn) or "resolved"
  wt_timer,    \* the setTimeout handle: unset, armed, fired or cleared
  wt_aborted,  \* controller.signal.aborted
  wt_elapsed,  \* milliseconds since the call
  wt_out       \* the value withTimeout resolved to, "none" before

wtVars == <<wt_variant, wt_fn, wt_site, wt_pc, wt_timer, wt_aborted,
            wt_elapsed, wt_out>>

WtIdle ==
  /\ wt_variant = "cli"
  /\ wt_fn = "resolves"
  /\ wt_site = [result |-> "stageValue", fallback |-> "neutralFallback"]
  /\ wt_pc = "init"
  /\ wt_timer = "unset"
  /\ wt_aborted = FALSE
  /\ wt_elapsed = 0
  /\ wt_out = "none"

WtStart ==
  /\ wt_variant \in WtVariants
  /\ wt_fn \in WtFnKinds
  /\ wt_site \in WtSites
  /\ wt_pc = "init"
  /\ wt_timer = "unset"
  /\ wt_aborted = FALSE
  /\ wt_elapsed = 0
  /\ wt_out = "none"

\* clearTimeout(timeout): a timer that has not fired yet never will.
ClearTimeout(t) == IF t = "armed" THEN "cleared" ELSE t

\* `return result` against `return result || fallback`.
WtReturnValue(variant, result, fallback) ==
  IF variant = "server" /\ result = "null" THEN fallback ELSE result

\* The controller and the timer are created and fn is called; an fn that
\* throws at once lands in the catch block in the same step.
WtCall ==
  /\ wt_pc = "init"
  /\ IF wt_fn = "throws"
     THEN /\ wt_timer' = "cleared"
          /\ wt_out' = wt_site.fallback
          /\ wt_pc' = "resolved"
     ELSE /\ wt_timer' = "armed"
          /\ wt_pc' = "awaiting"
          /\ UNCHANGED wt_out
  /\ UNCHANGED <<wt_variant, wt_fn, wt_site, wt_aborted, wt_elapsed>>

\* The promise of fn fulfils: the try block finishes.
WtFnResolves ==
  /\ wt_pc = "awaiting"
  /\ wt_fn = "resolves"
  /\ wt_timer' = ClearTimeout(wt_timer)
  /\ wt_out' = WtReturnValue(wt_variant, wt_site.result, wt_site.fallback)
  /\ wt_pc' = "resolved"
  /\ UNCHANGED <<wt_variant, wt_fn, wt_site, wt_aborted, wt_elapsed>>

\* The promise of fn rejects: the catch block returns the fallback.
WtFnRejects ==
  /\ wt_pc = "awaiting"
  /\ wt_fn = "rejects"
  /\ wt_timer' = ClearTimeout(wt_timer)
  /\ wt_out' = wt_site.fallback
  /\ wt_pc' = "resolved"
  /\ UNCHANGED <<wt_variant, wt_fn, wt_site, wt_aborted, wt_elapsed>>

\* Time passes; an armed timer that is due fires before more time passes.
WtTick ==
  /\ wt_pc # "init"
  /\ wt_elapsed < MaxElapsedTicks * TickMs
  /\ ~(wt_timer = "armed" /\ wt_elapsed >= TimeoutMs)
  /\ wt_elapsed' = wt_elapsed + TickMs
  /\ UNCHANGED <<wt_variant, wt_fn, wt_site, wt_pc, wt_timer, wt_aborted,
                 wt_out>>

\* The timer callback: controller.abort().  No wrapped function reads the
\* signal (each call site hands it over inside a trailing options object
\* that the callee ignores), so nothing else happens.
WtTimerFires ==
  /\ wt_timer = "armed"
  /\ wt_elapsed >= TimeoutMs
  /\ wt_timer' = "fired"
  /\ wt_aborted' = TRUE
  /\ UNCHANGED <<wt_variant, wt_fn, wt_site, wt_pc, wt_elapsed, wt_out>>


\* ------------------------------------------------------------------------
\* Score fusion stages.  A JavaScript object is a record; a property that
\* is undefined is a field the record does not have.
\* ------------------------------------------------------------------------
Has(r, f) == r # NULL /\ f \in DOMAIN r
\* An array handed over as an argument of its own, which may also be null
\* or undefined (NULL), is the record of its items.
Array(items) == [items |-> items]
\* a.b.c is defined
Has2(r, f, g) == Has(r, f) /\ Has(r[f], g)

\* assessSafety (src/src/lib/safetyAssessor.js:12-65).
MintRisk ==
  [issue |-> "Potential unchecked minting",
   implication |-> "Risk of unauthorized token issuance",
   mitigation |-> "Verify minting constraints"]
AuthorityRisk ==
  [issue |-> "Single authority",
   implication |-> "Centralization risk",
   mitigation |-> "Monitor authority actions"]
VolumeRisk ==
  [issue |-> "High suspicious volume",
   implication |-> "Potential laundering",
   mitigation |-> "Trace top accounts"]
ComplexityRisk ==
  [issue |-> "Complex interactions",
   implication |-> "Increased risk of hidden logic",
   mitigation |-> "Review call graph"]

\* x > y * 0.5 over possibly undefined operands (NaN compares false).
MoreThanHalf(e, x, y) == Has(e, x) /\ Has(e, y) /\ 2 * e[x] > e[y]

SafetyFallback == [safetyScore |-> 50, risks |-> <<>>]

\* The statements of the try block that throw a TypeError.
assessSafetyThrows(analysis, authorityInsights, transactions, callGraph) ==
  \/ ~Has(analysis, "insights")
  \/ ~Has(transactions, "economicInsights")
  \/ authorityInsights = NULL
  \/ ~Has(callGraph, "edges")

\* Mutant: the score starts from the fallback's 50.
assessSafetyFrom50(analysis, authorityInsights, transactions, callGraph) ==
  IF assessSafetyThrows(analysis, authorityInsights, transactions, callGraph)
  THEN SafetyFallback
  ELSE
    LET hidden == Has(analysis.insights, "hiddenMint")
                    /\ analysis.insights.hiddenMint
        single == Len(authorityInsights.items) = 1
        volume == MoreThanHalf(transactions.economicInsights,
                               "suspiciousVolume", "totalVolumeSOL")
        complex == Len(callGraph.edges) > 50
        score == 50 - (IF hidden THEN 20 ELSE 0) - (IF single THEN 10 ELSE 0)
                    - (IF volume THEN 15 ELSE 0) - (IF complex THEN 10 ELSE 0)
    IN [safetyScore |-> Max(0, Min(100, score)),
        risks |-> (IF hidden THEN <<MintRisk>> ELSE <<>>)
                    \o (IF single THEN <<AuthorityRisk>> ELSE <<>>)
                    \o (IF volume THEN <<VolumeRisk>> ELSE <<>>)
                    \o (IF complex THEN <<ComplexityRisk>> ELSE <<>>)]

\* Mutant: the complexity rule fires from 50 edges on.
assessSafetyFrom50Edges(analysis, authorityInsights, transactions, callGraph) ==
  IF assessSafetyThrows(analysis, authorityInsights, transactions, callGraph)
  THEN SafetyFallback
  ELSE
    LET hidden == Has(analysis.insights, "hiddenMint")
                    /\ analysis.insights.hiddenMint
        single == Len(authorityInsights.items) = 1
        volume == MoreThanHalf(transactions.economicInsights,
                               "suspiciousVolume", "totalVolumeSOL")
        complex == Len(callGraph.edges) >= 50
        score == 80 - (IF hidden THEN 20 ELSE 0) - (IF single THEN 10 ELSE 0)
                    - (IF volume THEN 15 ELSE 0) - (IF complex THEN 10 ELSE 0)
    IN [safetyScore |-> Max(0, Min(100, score)),
        risks |-> (IF hidden THEN <<MintRisk>> ELSE <<>>)
                    \o (IF single THEN <<AuthorityRisk>> ELSE <<>>)
                    \o (IF volume THEN <<VolumeRisk>> ELSE <<>>)
                    \o (IF complex THEN <<ComplexityRisk>> ELSE <<>>)]

assessSafety(analysis, authorityInsights, transactions, callGraph) ==
  IF assessSafetyThrows(analysis, authorityInsights, transactions, callGraph)
  THEN SafetyFallback
  ELSE
    LET hidden == Has(analysis.insights, "hiddenMint")
                    /\ analysis.insights.hiddenMint
        single == Len(authorityInsights.items) = 1
        volume == MoreThanHalf(transactions.economicInsights,
                               "suspiciousVolume", "totalVolumeSOL")
        complex == Len(callGraph.edges) > 50
        score == 80 - (IF hidden THEN 20 ELSE 0) - (IF single THEN 10 ELSE 0)
                    - (IF volume THEN 15 ELSE 0) - (IF complex THEN 10 ELSE 0)
    IN [safetyScore |-> Max(0, Min(100, score)),
        risks |-> (IF hidden THEN <<MintRisk>> ELSE <<>>)
                    \o (IF single THEN <<AuthorityRisk>> ELSE <<>>)
                    \o (IF volume THEN <<VolumeRisk>> ELSE <<>>)
                    \o (IF complex THEN <<ComplexityRisk>> ELSE <<>>)]


\* inferBehavior (src/unnamed/part_007:11-59).
BehaviorFallback ==
  [scamProbability |-> 10, launderingLikelihood |-> 10,
   programTypeConfidence |-> [unknown |-> 100]]

\* count > transactionCount * q / 10, false when an operand is undefined.
MoreThanShare(e, bucket, q) ==
  /\ Has(e, "transactionCount")
  /\ Has(e.transactionTypes[bucket], "count")
  /\ 10 * e.transactionTypes[bucket].count > q * e.transactionCount

SwapMajority(e) == MoreThanShare(e, "swaps", 5)
NftShare(e) == MoreThanShare(e, "nftMints", 3)

inferBehaviorThrows(analysis, transactionData) ==
  \/ ~Has(analysis, "insights")
  \/ ~Has(transactionData, "economicInsights")
  \/ ~Has(analysis.insights, "authorityHolders")
  \/ ~Has(transactionData.economicInsights, "tokenFlowInsights")
  \/ ~Has(transactionData.economicInsights, "transactionVolumeAnalysis")
  \/ ~Has2(transactionData.economicInsights, "transactionTypes", "others")
  \/ ~Has(analysis.insights, "syscalls")
  \/ /\ ~(Has(analysis.insights, "suspectedType")
            /\ analysis.insights.suspectedType = "governance")
     /\ \/ ~Has(transactionData.economicInsights.transactionTypes, "swaps")
        \/ /\ ~SwapMajority(transactionData.economicInsights)
           /\ ~Has(transactionData.economicInsights.transactionTypes,
                   "nftMints")

\* Mutant: the deltas are larger and the scores are returned unclamped.
inferBehaviorUnclamped(analysis, transactionData) ==
  IF inferBehaviorThrows(analysis, transactionData) THEN BehaviorFallback
  ELSE
    LET insights == analysis.insights
        e == transactionData.economicInsights
    IN [scamProbability |->
          10 + (IF Has(insights, "hiddenMint") /\ insights.hiddenMint
                THEN 50 ELSE 0)
             + (IF MoreThanHalf(e, "suspiciousVolume", "totalVolumeSOL")
                THEN 30 ELSE 0)
             + (IF Len(insights.authorityHolders) = 1 THEN 20 ELSE 0),
        launderingLikelihood |-> 10,
        programTypeConfidence |-> [unknown |-> 100]]

\* The same with the nft-mint share tested before the swap majority.
inferBehaviorNftFirst(analysis, transactionData) ==
  IF inferBehaviorThrows(analysis, transactionData) THEN BehaviorFallback
  ELSE
    LET insights == analysis.insights
        e == transactionData.economicInsights
        scamProbability ==
          10 + (IF Has(insights, "hiddenMint") /\ insights.hiddenMint
                THEN 30 ELSE 0)
             + (IF MoreThanHalf(e, "suspiciousVolume", "totalVolumeSOL")
                THEN 20 ELSE 0)
             + (IF /\ Has(e, "transactionCount") /\ e.transactionCount < 10
                   /\ Has(e, "totalVolumeSOL")
                   /\ e.totalVolumeSOL > 100 * SolUnit
                THEN 20 ELSE 0)
             + (IF Len(insights.authorityHolders) = 1 THEN 10 ELSE 0)
        launderingLikelihood ==
          10 + (IF Has(e.tokenFlowInsights, "concentrationRisk")
                   /\ e.tokenFlowInsights.concentrationRisk
                THEN 25 ELSE 0)
             + (IF Has(e.transactionVolumeAnalysis, "highVolatility")
                   /\ e.transactionVolumeAnalysis.highVolatility
                THEN 20 ELSE 0)
             + (IF MoreThanShare(e, "others", 3) THEN 15 ELSE 0)
             + (IF /\ \E i \in 1..Len(insights.syscalls) :
                        insights.syscalls[i] = "sol_invoke"
                   /\ Has(insights, "instructions")
                   /\ insights.instructions > 500
                THEN 10 ELSE 0)
        programTypeConfidence ==
          IF Has(insights, "suspectedType")
               /\ insights.suspectedType = "governance"
          THEN [governance |-> 90, amm |-> 5, nft |-> 5]
          ELSE IF NftShare(e)
          THEN [nft |-> 80, amm |-> 10, governance |-> 10]
          ELSE IF SwapMajority(e)
          THEN [amm |-> 85, governance |-> 10, nft |-> 5]
          ELSE [unknown |-> 50, governance |-> 20, amm |-> 20, nft |-> 10]
    IN [scamProbability |-> Min(100, scamProbability),
        launderingLikelihood |-> Min(100, launderingLikelihood),
        programTypeConfidence |-> programTypeConfidence]

inferBehavior(analysis, transactionData) ==
  IF inferBehaviorThrows(analysis, transactionData) THEN BehaviorFallback
  ELSE
    LET insights == analysis.insights
        e == transactionData.economicInsights
        scamProbability ==
          10 + (IF Has(insights, "hiddenMint") /\ insights.hiddenMint
                THEN 30 ELSE 0)
             + (IF MoreThanHalf(e, "suspiciousVolume", "totalVolumeSOL")
                THEN 20 ELSE 0)
             + (IF /\ Has(e, "transactionCount") /\ e.transactionCount < 10
                   /\ Has(e, "totalVolumeSOL")
                   /\ e.totalVolumeSOL > 100 * SolUnit
                THEN 20 ELSE 0)
             + (IF Len(insights.authorityHolders) = 1 THEN 10 ELSE 0)
        launderingLikelihood ==
          10 + (IF Has(e.tokenFlowInsights, "concentrationRisk")
                   /\ e.tokenFlowInsights.concentrationRisk
                THEN 25 ELSE 0)
             + (IF Has(e.transactionVolumeAnalysis, "highVolatility")
                   /\ e.transactionVolumeAnalysis.highVolatility
                THEN 20 ELSE 0)
             + (IF MoreThanShare(e, "others", 3) THEN 15 ELSE 0)
             + (IF /\ \E i \in 1..Len(insights.syscalls) :
                        insights.syscalls[i] = "sol_invoke"
                   /\ Has(insights, "instructions")
                   /\ insights.instructions > 500
                THEN 10 ELSE 0)
        programTypeConfidence ==
          IF Has(insights, "suspectedType")
               /\ insights.suspectedType = "governance"
          THEN [governance |-> 90, amm |-> 5, nft |-> 5]
          ELSE IF SwapMajority(e)
          THEN [amm |-> 85, governance |-> 10, nft |-> 5]
          ELSE IF NftShare(e)
          THEN [nft |-> 80, amm |-> 10, governance |-> 10]
          ELSE [unknown |-> 50, governance |-> 20, amm |-> 20, nft |-> 10]
    IN [scamProbability |-> Min(100, scamProbability),
        launderingLikelihood |-> Min(100, launderingLikelihood),
        programTypeConfidence |-> programTypeConfidence]

\* predictRisk (src/src/lib/updateAnalyzer.js:45-91), the body behind the
\* export of riskPredictor.js.
VolatilityFactor ==
  [issue |-> "High transaction volume volatility",
   details |-> "May indicate manipulative activity"]
AuthorityFactor ==
  [issue |-> "Single authority",
   details |-> "Increases risk of malicious upgrades"]
SafetyFactor ==
  [issue |-> "Low safety score",
   details |-> "Indicates multiple vulnerabilities"]

RiskFallback ==
  [riskLikelihood |-> 30, prediction |-> "Low risk", riskFactors |-> <<>>]

predictRiskThrows(authorityInsights, transactionData, safetyAssessment) ==
  \/ authorityInsights = NULL
  \/ ~Has(transactionData, "economicInsights")
  \/ safetyAssessment = NULL
  \/ ~Has(transactionData.economicInsights, "transactionVolumeAnalysis")

\* The same with a safety score of 50 counted as low.
predictRiskAtMost50(authorityInsights, transactionData, safetyAssessment) ==
  IF predictRiskThrows(authorityInsights, transactionData, safetyAssessment)
  THEN RiskFallback
  ELSE
    LET volatile ==
          LET a == transactionData.economicInsights.transactionVolumeAnalysis
          IN Has(a, "highVolatility") /\ a.highVolatility
        single == Len(authorityInsights.items) = 1
        unsafe == Has(safetyAssessment, "safetyScore")
                    /\ safetyAssessment.safetyScore <= 50
        riskLikelihood ==
          30 + (IF volatile THEN 20 ELSE 0) + (IF single THEN 15 ELSE 0)
             + (IF unsafe THEN 25 ELSE 0)
    IN [riskLikelihood |-> Min(100, riskLikelihood),
        prediction |-> IF riskLikelihood > 70 THEN "High risk"
                       ELSE "Low to moderate risk",
        riskFactors |-> (IF volatile THEN <<VolatilityFactor>> ELSE <<>>)
                          \o (IF single THEN <<AuthorityFactor>> ELSE <<>>)
                          \o (IF unsafe THEN <<SafetyFactor>> ELSE <<>>)]

predictRisk(authorityInsights, transactionData, safetyAssessment) ==
  IF predictRiskThrows(authorityInsights, transactionData, safetyAssessment)
  THEN RiskFallback
  ELSE
    LET volatile ==
          LET a == transactionData.economicInsights.transactionVolumeAnalysis
          IN Has(a, "highVolatility") /\ a.highVolatility
        single == Len(authorityInsights.items) = 1
        unsafe == Has(safetyAssessment, "safetyScore")
                    /\ safetyAssessment.safetyScore < 50
        riskLikelihood ==
          30 + (IF volatile THEN 20 ELSE 0) + (IF single THEN 15 ELSE 0)
             + (IF unsafe THEN 25 ELSE 0)
    IN [riskLikelihood |-> Min(100, riskLikelihood),
        prediction |-> IF riskLikelihood > 70 THEN "High risk"
                       ELSE "Low to moderate risk",
        riskFactors |-> (IF volatile THEN <<VolatilityFactor>> ELSE <<>>)
                          \o (IF single THEN <<AuthorityFactor>> ELSE <<>>)
                          \o (IF unsafe THEN <<SafetyFactor>> ELSE <<>>)]

\* inferGovernance (src/src/lib/governanceInferer.js:10-35).
GovernanceFallback == [type |-> "Unknown", trustScore |-> 50, details |-> <<>>]

inferGovernanceThrows(authorityInsights, callGraph) ==
  \/ authorityInsights = NULL
  \/ callGraph = NULL
  \/ ~Has(callGraph, "edges")

\* The same with "one authority or more" read as decentralized.
inferGovernanceFromOne(authorityInsights, callGraph) ==
  IF inferGovernanceThrows(authorityInsights, callGraph)
  THEN GovernanceFallback
  ELSE
    LET multiple == Len(authorityInsights.items) >= 1
        voting == \E i \in 1..Len(callGraph.edges) :
                    callGraph.edges[i].action = "governance"
        trustScore == (IF multiple THEN 70 ELSE 50)
                        + (IF voting THEN 10 ELSE 0)
    IN [type |-> IF multiple THEN "Decentralized" ELSE "Centralized",
        trustScore |-> Min(100, trustScore),
        details |->
          <<IF multiple THEN "Multiple authorities detected"
            ELSE "Single authority detected">>
            \o (IF voting THEN <<"Voting interactions observed">>
                ELSE <<>>)]

inferGovernance(authorityInsights, callGraph) ==
  IF inferGovernanceThrows(authorityInsights, callGraph)
  THEN GovernanceFallback
  ELSE
    LET multiple == Len(authorityInsights.items) > 1
        voting == \E i \in 1..Len(callGraph.edges) :
                    callGraph.edges[i].action = "governance"
        trustScore == (IF multiple THEN 70 ELSE 50)
                        + (IF voting THEN 10 ELSE 0)
    IN [type |-> IF multiple THEN "Decentralized" ELSE "Centralized",
        trustScore |-> Min(100, trustScore),
        details |->
          <<IF multiple THEN "Multiple authorities detected"
            ELSE "Single authority detected">>
            \o (IF voting THEN <<"Voting interactions observed">>
                ELSE <<>>)]


\* ---- Inputs of the score stages ----------------------------------------
MaxVolume == 4
MaxAuthorities == 2
MaxEdges == 52

SomeInsight(i) ==
  [authority |-> "Authority11111111111111111111111111111111", totalSOLWithdrawn |-> 0,
   walletAgeDays |-> 0, tokenMintCount |-> 0]
\* Authority insight lists by length, and a missing list.
AuthorityLists ==
  {NULL} \cup
  {Array([i \in 1..n |-> SomeInsight(i)]) : n \in 0..MaxAuthorities}

EdgeList(n, action) ==
  [i \in 1..n |->
     [from |-> "WalletSrc", to |-> "WalletDst", action |-> action,
      count |-> 1]]
EdgeCounts == {0, 1, 50, 51, MaxEdges}
CallGraphs ==
  {NULL, [nodes |-> <<>>]} \cup
  {[nodes |-> <<PROGRAM_A>>, edges |-> EdgeList(n, a)] :
     n \in EdgeCounts, a \in {"swap", "governance"}}
  \cup {[nodes |-> <<PROGRAM_A>>,
         edges |-> EdgeList(2, "swap") \o EdgeList(1, "governance")]}

\* Binary profiles as the score stages read them, and broken ones: no
\* analysis, no insights, the orchestrator's short fallback profile.
ScoreInsights ==
  [hiddenMint : BOOLEAN,
   authorityHolders : {[i \in 1..n |-> "8x7y...z9k2"] : n \in 0..MaxAuthorities},
   syscalls : {<<>>, <<"sol_invoke">>},
   instructions : {500, 501},
   suspectedType : {"unknown", "governance"}]
ScoreAnalyses ==
  {NULL, [address |-> PROGRAM_A],
   [insights |-> [suspectedType |-> "UNKNOWN", authorityHolders |-> <<>>]],
   [insights |-> [suspectedType |-> "unknown", hiddenMint |-> TRUE]]}
  \cup {[insights |-> i] : i \in ScoreInsights}

\* Volumes around the thresholds: a small grid, and 100 SOL and just above.
Volumes == (0..MaxVolume) \cup {50 * SolUnit, 100 * SolUnit, 100 * SolUnit + 1}

Bucket(n) == [count |-> n, volumeSOL |-> 0]
FullEconomics ==
  {[totalVolumeSOL |-> t, suspiciousVolume |-> sv, transactionCount |-> n,
    transactionTypes |->
      [swaps |-> Bucket(sw), nftMints |-> Bucket(nf), others |-> Bucket(ot)],
    tokenFlowInsights |->
      [topOutflows |-> <<>>, topInflows |-> <<>>, concentrationRisk |-> cr],
    transactionVolumeAnalysis |-> [highVolatility |-> hv]] :
     t \in {0, 100 * SolUnit, 100 * SolUnit + 1},
     sv \in {0, 50 * SolUnit, 50 * SolUnit + 1},
     n \in {9, 10}, sw \in {5, 6}, nf \in {3, 4}, ot \in {3, 4},
     cr \in BOOLEAN, hv \in BOOLEAN}
\* The volumes alone, as assessSafety reads them.
VolumeEconomics ==
  {[totalVolumeSOL |-> t, suspiciousVolume |-> sv] :
     t \in Volumes, sv \in Volumes}
\* No data, no insights, and the orchestrator's two fallback objects
\* (src/src/cli.js:341 and 917).
BrokenTransactionData ==
  {NULL, [transactions |-> <<>>],
   [transactions |-> <<>>,
    economicInsights |->
      [totalVolumeSOL |-> 0, suspiciousVolume |-> 0,
       transactionTypes |-> [none |-> TRUE], topAccounts |-> <<>>]],
   [transactions |-> <<>>,
    economicInsights |->
      [totalVolumeSOL |-> 0, suspiciousVolume |-> 0, topAccounts |-> <<>>]]}

SafetyAssessments ==
  {NULL, [risks |-> <<>>]} \cup
  {[safetyScore |-> x, risks |-> <<>>] : x \in {0, 49, 50, 100}}

ScoreStages ==
  {"assessSafety", "inferBehavior", "predictRisk", "inferGovernance"}

VARIABLES
  sc_fn,    \* the stage function under call
  sc_args,  \* its arguments
  sc_out    \* its return value, NULL before the call

scVars == <<sc_fn, sc_args, sc_out>>

NoArgs ==
  [analysis |-> NULL, authorityInsights |-> NULL, transactionData |-> NULL,
   callGraph |-> NULL, safetyAssessment |-> NULL]

ScIdle ==
  /\ sc_fn = "assessSafety"
  /\ sc_args = NoArgs
  /\ sc_out = NULL

ScStart ==
  /\ sc_fn \in ScoreStages
  /\ sc_out = NULL
  /\ \/ /\ sc_fn = "assessSafety"
        /\ sc_args \in
             {[NoArgs EXCEPT !.analysis = a, !.authorityInsights = au,
                             !.transactionData = td, !.callGraph = cg] :
                a \in {x \in ScoreAnalyses :
                         Has(x, "insights") =>
                           (Has(x.insights, "instructions") =>
                              /\ x.insights.instructions = 500
                              /\ x.insights.syscalls = <<>>
                              /\ x.insights.authorityHolders = <<>>
                              /\ x.insights.suspectedType = "unknown")},
                au \in AuthorityLists,
                td \in BrokenTransactionData \cup
                         {[transactions |-> <<>>, economicInsights |-> e] :
                            e \in VolumeEconomics},
                cg \in CallGraphs}
     \/ /\ sc_fn = "inferBehavior"
        /\ sc_args \in
             {[NoArgs EXCEPT !.analysis = a, !.transactionData = td] :
                a \in ScoreAnalyses,
                td \in BrokenTransactionData \cup
                         {[transactions |-> <<>>, economicInsights |-> e] :
                            e \in FullEconomics}}
     \/ /\ sc_fn = "predictRisk"
        /\ sc_args \in
             {[NoArgs EXCEPT !.authorityInsights = au, !.transactionData = td,
                             !.safetyAssessment = sa] :
                au \in AuthorityLists,
                td \in BrokenTransactionData \cup
                         {[transactions |-> <<>>, economicInsights |-> e] :
                            e \in {x \in FullEconomics :
                                     /\ x.totalVolumeSOL = 0
                                     /\ x.suspiciousVolume = 0
                                     /\ x.transactionCount = 9
                                     /\ x.transactionTypes.swaps.count = 5
                                     /\ x.transactionTypes.nftMints.count = 3
                                     /\ x.transactionTypes.others.count = 3}},
                sa \in SafetyAssessments}
     \/ /\ sc_fn = "inferGovernance"
        /\ sc_args \in
             {[NoArgs EXCEPT !.authorityInsights = au, !.callGraph = cg] :
                au \in AuthorityLists, cg \in CallGraphs}

RunAssessSafety ==
  /\ sc_fn = "assessSafety"
  /\ sc_out = NULL
  /\ sc_out' = assessSafety(sc_args.analysis, sc_args.authorityInsights,
                            sc_args.transactionData, sc_args.callGraph)
  /\ UNCHANGED <<sc_fn, sc_args>>

RunInferBehavior ==
  /\ sc_fn = "inferBehavior"
  /\ sc_out = NULL
  /\ sc_out' = inferBehavior(sc_args.analysis, sc_args.transactionData)
  /\ UNCHANGED <<sc_fn, sc_args>>

RunPredictRisk ==
  /\ sc_fn = "predictRisk"
  /\ sc_out = NULL
  /\ sc_out' = predictRisk(sc_args.authorityInsights, sc_args.transactionData,
                           sc_args.safetyAssessment)
  /\ UNCHANGED <<sc_fn, sc_args>>

RunInferGovernance ==
  /\ sc_fn = "inferGovernance"
  /\ sc_out = NULL
  /\ sc_out' = inferGovernance(sc_args.authorityInsights, sc_args.callGraph)
  /\ UNCHANGED <<sc_fn, sc_args>>


\* ------------------------------------------------------------------------
\* analyzeBinary (src/src/lib/analyzer.js:10-83).
\* A byte buffer is a run of filler bytes (bytes that belong to no marker)
\* and a sequence of whole markers; its length and its substring tests
\* follow from the two.
\* ------------------------------------------------------------------------
MaxFill == 8100
MaxShortFill == 16
MaxMarkers == 2

\* The byte patterns the profiler searches for: four texts and the three
\* syscall signatures 01 00 00, 02 00 00, 03 00 00.
Markers ==
  {"swap", "mintNFT", "mint", "borsh", "sol_invoke", "sol_verify_signature",
   "sol_alloc_free"}
MarkerLen(m) ==
  CASE m \in {"swap", "mint"} -> 4
    [] m = "mintNFT" -> 7
    [] m = "borsh" -> 5
    [] OTHER -> 3
\* The marker m holds the pattern needle as a substring.
MarkerHolds(m, needle) == m = needle \/ (m = "mintNFT" /\ needle = "mint")

\* What a caller may hand over as `binary`: a Buffer, a string (which has
\* length and includes as well), an array (whose includes compares
\* elements, never bytes) and values without length or includes.
BinaryKinds ==
  {"buffer", "string", "array", "undefined", "null", "number", "object"}

BinaryLength(binary) ==
  binary.fill + Sum(binary.markers, MarkerLen)

\* binary.includes(Buffer.from(needle))
BinaryIncludes(binary, needle) ==
  /\ binary.kind \in {"buffer", "string"}
  /\ \E i \in 1..Len(binary.markers) : MarkerHolds(binary.markers[i], needle)

\* The double nearest to 0.1 (to 0.05) lies above 1/10 (1/20).  Products
\* with it are computed in 20-bit fixed point with the factor rounded up
\* likewise; Math.floor of the product is the integer part.
FractionBits == 1048576
TenthUp == 104858
TwentiethUp == 52429
FloorTimesTenth(n) == (n * TenthUp) \div FractionBits
FloorTimesTwentieth(n) == (n * TwentiethUp) \div FractionBits

detectSyscalls(binary) ==
  (IF BinaryIncludes(binary, "sol_invoke") THEN <<"sol_invoke">> ELSE <<>>)
    \o (IF BinaryIncludes(binary, "sol_verify_signature")
        THEN <<"sol_verify_signature">> ELSE <<>>)
    \o (IF BinaryIncludes(binary, "sol_alloc_free")
        THEN <<"sol_alloc_free">> ELSE <<>>)

\* Mutant: the 'mintNFT' test comes before the 'swap' test.
inferProgramTypeNftFirst(address, binary) ==
  IF address = GOVERNANCE_PROGRAM THEN "governance"
  ELSE IF BinaryIncludes(binary, "mintNFT") THEN "nft"
  ELSE IF BinaryIncludes(binary, "swap") THEN "amm"
  ELSE "unknown"
inferProgramType(address, binary) ==
  IF address = GOVERNANCE_PROGRAM THEN "governance"
  ELSE IF BinaryIncludes(binary, "swap") THEN "amm"
  ELSE IF BinaryIncludes(binary, "mintNFT") THEN "nft"
  ELSE "unknown"

\* binary.length or binary.includes(...) throws a TypeError.
analyzeBinaryThrows(binary) ==
  binary.kind \in {"undefined", "null", "number", "object"}

BaselineProfile(address) ==
  [insights |->
     [instructions |-> 0, syscalls |-> <<>>, suspectedType |-> "unknown",
      reentrancyRisk |-> "Low", controlFlow |-> [branches |-> 0, loops |-> 0],
      usesBorsh |-> FALSE, hiddenMint |-> FALSE, authorityHolders |-> <<>>,
      address |-> address]]

\* Mutant: the instruction count rounds up.
instructionCountRoundUp(binary) == (BinaryLength(binary) + 7) \div 8
\* Math.floor(binary.length / 8)
instructionCountOf(binary) == BinaryLength(binary) \div 8

ComputedProfile(binary, address) ==
  LET instructionCount == instructionCountOf(binary) IN
  [insights |->
     [instructions |-> instructionCount,
      syscalls |-> detectSyscalls(binary),
      suspectedType |-> inferProgramType(address, binary),
      reentrancyRisk |-> IF instructionCount > 1000 THEN "Moderate" ELSE "Low",
      controlFlow |-> [branches |-> FloorTimesTenth(instructionCount),
                       loops |-> FloorTimesTwentieth(instructionCount)],
      usesBorsh |-> BinaryIncludes(binary, "borsh"),
      hiddenMint |-> BinaryIncludes(binary, "mint"),
      authorityHolders |-> <<"8x7y...z9k2">>,
      address |-> address]]

\* Mutant: the catch block rethrows.
analyzeBinaryRethrows(binary, address) ==
  IF analyzeBinaryThrows(binary)
  THEN [raised |-> TRUE, value |-> NULL]
  ELSE [raised |-> FALSE, value |-> ComputedProfile(binary, address)]

\* The call's outcome: whether it raised, and the value it returned.
analyzeBinary(binary, address) ==
  IF analyzeBinaryThrows(binary)
  THEN [raised |-> FALSE, value |-> BaselineProfile(address)]
  ELSE [raised |-> FALSE, value |-> ComputedProfile(binary, address)]

VARIABLES
  ab_binary,   \* the binary argument
  ab_address,  \* the address argument
  ab_out       \* the outcome of the call, NULL before it

abVars == <<ab_binary, ab_address, ab_out>>

\* Long inputs with at most one marker, short ones with up to MaxMarkers;
\* a value without a length has no content.
BinaryInputs ==
  {[kind |-> k, fill |-> n, markers |-> ms] :
     k \in {"buffer"}, n \in 0..MaxFill, ms \in SeqUpTo(Markers, 1)}
  \cup
  {[kind |-> k, fill |-> n, markers |-> ms] :
     k \in {"buffer", "string", "array"}, n \in 0..MaxShortFill,
     ms \in SeqUpTo(Markers, MaxMarkers)}
  \cup
  {[kind |-> k, fill |-> 0, markers |-> <<>>] :
     k \in {"undefined", "null", "number", "object"}}

AbIdle ==
  /\ ab_binary = [kind |-> "buffer", fill |-> 0, markers |-> <<>>]
  /\ ab_address = PROGRAM_A
  /\ ab_out = NULL

AbStart ==
  /\ ab_binary \in BinaryInputs
  /\ ab_address \in {PROGRAM_A, GOVERNANCE_PROGRAM}
  /\ ab_out = NULL

AnalyzeBinary ==
  /\ ab_out = NULL
  /\ ab_out' = analyzeBinary(ab_binary, ab_address)
  /\ UNCHANGED <<ab_binary, ab_address>>


\* ------------------------------------------------------------------------
\* reconstructCallGraph (src/unnamed/part_005:10-44).
\* ------------------------------------------------------------------------
EmptyCallGraph == [nodes |-> <<>>, edges |-> <<>>]

\* The address a profile carries; an undefined one is the node "undefined".
AddressOf(analysis) ==
  IF Has2(analysis, "insights", "address") THEN analysis.insights.address
  ELSE "undefined"

RECURSIVE EdgesOfInstructions(_, _, _)
EdgesOfInstructions(ixs, action, i) ==
  IF i > Len(ixs) THEN <<>>
  ELSE (IF Has(ixs[i], "accounts") /\ Len(ixs[i].accounts) >= 2
        THEN <<[from |-> ixs[i].accounts[1], to |-> ixs[i].accounts[2],
                action |-> action, count |-> 1]>>
        ELSE <<>>)
         \o EdgesOfInstructions(ixs, action, i + 1)

RECURSIVE EdgesOfTransactions(_, _)
EdgesOfTransactions(transactions, i) ==
  IF i > Len(transactions) THEN <<>>
  ELSE EdgesOfInstructions(transactions[i].instructions,
                           transactions[i].type, 1)
         \o EdgesOfTransactions(transactions, i + 1)

\* Set.add keeps the first insertion of a value.
AddNode(nodes, n) ==
  IF \E i \in 1..Len(nodes) : nodes[i] = n THEN nodes ELSE Append(nodes, n)

RECURSIVE NodesOfEdges(_, _, _)
NodesOfEdges(nodes, edges, i) ==
  IF i > Len(edges) THEN nodes
  ELSE NodesOfEdges(AddNode(AddNode(nodes, edges[i].from), edges[i].to),
                    edges, i + 1)

\* The statements of the try block that throw: the guard of line 12 and
\* tx.instructions.forEach on a transaction without instructions.
reconstructCallGraphThrows(analysis, transactions) ==
  \/ ~Has(analysis, "insights")
  \/ ~Has(transactions, "transactions")
  \/ \E i \in 1..Len(transactions.transactions) :
       ~Has(transactions.transactions[i], "instructions")

\* Mutant: a transaction without instructions is skipped and the edges of
\* the others are kept.
reconstructCallGraphSkipping(analysis, transactions) ==
  IF ~Has(analysis, "insights") \/ ~Has(transactions, "transactions")
  THEN EmptyCallGraph
  ELSE LET edges == EdgesOfTransactions(
                      SelectSeq(transactions.transactions,
                                LAMBDA tx : Has(tx, "instructions")), 1)
       IN [nodes |-> NodesOfEdges(<<AddressOf(analysis)>>, edges, 1),
           edges |-> edges]

\* Mutant: an edge that repeats an earlier one is merged into it.
reconstructCallGraphMerged(analysis, transactions) ==
  IF reconstructCallGraphThrows(analysis, transactions)
  THEN EmptyCallGraph
  ELSE LET all == EdgesOfTransactions(transactions.transactions, 1)
           firsts == {k \in 1..Len(all) : \A j \in 1..(k - 1) : all[j] # all[k]}
           Nth(n) == CHOOSE k \in firsts :
                       Cardinality({j \in firsts : j < k}) = n - 1
           edges == [n \in 1..Cardinality(firsts) |-> all[Nth(n)]]
       IN [nodes |-> NodesOfEdges(<<AddressOf(analysis)>>, edges, 1),
           edges |-> edges]

\* Mutant: the node set starts empty instead of holding the address.
reconstructCallGraphNoRoot(analysis, transactions) ==
  IF reconstructCallGraphThrows(analysis, transactions)
  THEN EmptyCallGraph
  ELSE LET edges == EdgesOfTransactions(transactions.transactions, 1)
       IN [nodes |-> NodesOfEdges(<<>>, edges, 1), edges |-> edges]

\* Mutant: the edge runs from accounts[1] to accounts[0].
reconstructCallGraphReversed(analysis, transactions) ==
  IF reconstructCallGraphThrows(analysis, transactions)
  THEN EmptyCallGraph
  ELSE LET edges == EdgesOfTransactions(transactions.transactions, 1)
       IN [nodes |-> NodesOfEdges(<<AddressOf(analysis)>>, edges, 1),
           edges |-> [k \in 1..Len(edges) |->
                        [edges[k] EXCEPT !.from = edges[k].to,
                                         !.to = edges[k].from]]]

reconstructCallGraph(analysis, transactions) ==
  IF reconstructCallGraphThrows(analysis, transactions)
  THEN EmptyCallGraph
  ELSE LET edges == EdgesOfTransactions(transactions.transactions, 1)
       IN [nodes |-> NodesOfEdges(<<AddressOf(analysis)>>, edges, 1),
           edges |-> edges]

\* Calls of reconstructCallGraph on one profile and on two transaction
\* lists, apart and joined.
MaxGraphIx == 2
MaxGraphTxs == 1

\* Instructions as the graph builder reads them: a parsed instruction has
\* no accounts; a partially decoded one has its account keys.
GraphInstructions ==
  {[programId |-> TOKEN_PROGRAM],
   [programId |-> OTHER_PROGRAM, accounts |-> <<"WalletSrc">>],
   [programId |-> RAYDIUM_PROGRAM, accounts |-> <<PROGRAM_A, "WalletSrc">>],
   [programId |-> OTHER_PROGRAM,
    accounts |-> <<"WalletDst", "WalletDst", "WalletSrc">>]}
GraphTransactions ==
  {[signature |-> "sig", instructions |-> ixs, type |-> t] :
     ixs \in SeqUpTo(GraphInstructions, MaxGraphIx),
     t \in {"swap", "governance"}}
\* Transaction data: lists of transactions, no data, and a list that holds
\* a transaction without instructions.
GraphTransactionData(n) ==
  {[transactions |-> l] : l \in SeqUpTo(GraphTransactions, n)}
\* The second list: empty, or one transaction of one instruction.
GraphSecondData ==
  {[transactions |-> l] :
     l \in {<<>>} \cup {<<t>> : t \in {u \in GraphTransactions :
                                         Len(u.instructions) = 1}}}
\* A transaction that gives one edge, and one without an instructions list.
GraphTxWithEdge ==
  [signature |-> "sig",
   instructions |-> <<[programId |-> RAYDIUM_PROGRAM,
                       accounts |-> <<PROGRAM_A, "WalletSrc">>]>>,
   type |-> "swap"]
GraphTxWithoutInstructions == [signature |-> "sig", type |-> "unknown"]
MalformedGraphData ==
  {NULL, [economicInsights |-> [totalVolumeSOL |-> 0]],
   [transactions |-> <<GraphTxWithoutInstructions>>],
   [transactions |-> <<GraphTxWithEdge, GraphTxWithoutInstructions>>],
   [transactions |-> <<GraphTxWithoutInstructions, GraphTxWithEdge>>],
   [transactions |->
      <<GraphTxWithEdge, GraphTxWithoutInstructions, GraphTxWithEdge>>]}
GraphAnalyses ==
  {NULL, [address |-> PROGRAM_A],
   [insights |-> [suspectedType |-> "UNKNOWN", authorityHolders |-> <<>>]],
   BaselineProfile(PROGRAM_A)}

VARIABLES
  cg_analysis,  \* the analysis argument
  cg_first,     \* the transactions argument of the first call
  cg_second,    \* the transactions argument of the second call
  cg_out        \* the graphs returned, NULL before the calls

cgVars == <<cg_analysis, cg_first, cg_second, cg_out>>

CgIdle ==
  /\ cg_analysis = NULL
  /\ cg_first = NULL
  /\ cg_second = NULL
  /\ cg_out = NULL

CgStart ==
  /\ cg_analysis \in GraphAnalyses
  /\ \/ /\ cg_first \in GraphTransactionData(MaxGraphTxs)
        /\ cg_second \in GraphSecondData
     \/ /\ cg_first \in MalformedGraphData
        /\ cg_second \in {[transactions |-> <<>>],
                          [transactions |-> <<GraphTxWithEdge>>]}
  /\ cg_out = NULL

\* The graph of each list, and of the two lists joined when both are lists.
ReconstructCallGraphs ==
  /\ cg_out = NULL
  /\ cg_out' =
       [first |-> reconstructCallGraph(cg_analysis, cg_first),
        second |-> reconstructCallGraph(cg_analysis, cg_second),
        joined |->
          IF Has(cg_first, "transactions")
          THEN reconstructCallGraph(
                 cg_analysis,
                 [transactions |->
                    cg_first.transactions \o cg_second.transactions])
          ELSE NULL]
  /\ UNCHANGED <<cg_analysis, cg_first, cg_second>>

\* ------------------------------------------------------------------------
\* Calls of analyzeTokenFlows (src/src/lib/transactions.js:263-330) on
\* lists of token transfers that the analyzed program sends or receives.
\* ------------------------------------------------------------------------
MaxFlows == 6
LargeAmount == 17 * SolUnit

WalletNames ==
  <<"Wallet1", "Wallet2", "Wallet3", "Wallet4", "Wallet5", "Wallet6",
    "Wallet7", "Wallet8">>

\* The transfer at place i of a list: one token or LargeAmount to a wallet
\* of its own, one token to the first wallet again, or one token received.
FlowTransfer(i, repeat, amount, dir) ==
  LET wallet == IF repeat THEN WalletNames[1] ELSE WalletNames[i]
  IN [instructions |->
        <<[programId |-> TOKEN_PROGRAM, ptype |-> "transfer",
           accounts |-> <<>>,
           info |-> [source |-> IF dir = "out" THEN PROGRAM_A ELSE wallet,
                     destination |->
                       IF dir = "out" THEN wallet ELSE PROGRAM_A,
                     amount |-> amount, mint |-> "MintA",
                     mintAuthority |-> "undefined"]]>>,
      pre |-> 1000, post |-> 1000, fee |-> 5]
FlowChoices ==
  {<<"out", FALSE, SolUnit>>, <<"out", FALSE, LargeAmount>>,
   <<"out", TRUE, SolUnit>>, <<"in", FALSE, SolUnit>>}
FlowLists ==
  UNION {{[i \in 1..n |->
             MakeTransaction("sig", FlowTransfer(i, c[i][2], c[i][3],
                                                 c[i][1]), PROGRAM_A)] :
            c \in [1..n -> FlowChoices]} : n \in 0..MaxFlows}

VARIABLES
  tf_transactions,  \* the transactions argument
  tf_out            \* the flow insights returned, NULL before the call

tfVars == <<tf_transactions, tf_out>>

TfIdle ==
  /\ tf_transactions = <<>>
  /\ tf_out = NULL

TfStart ==
  /\ tf_transactions \in FlowLists
  /\ tf_out = NULL

AnalyzeTokenFlows ==
  /\ tf_out = NULL
  /\ tf_out' = analyzeTokenFlows(tf_transactions, PROGRAM_A)
  /\ UNCHANGED tf_transactions

\* ------------------------------------------------------------------------
\* generateAuditReport (src/src/lib/auditReport.js:14-148).
\* ------------------------------------------------------------------------
UNDEFINED == [undefined |-> TRUE]
NaN == [nan |-> TRUE]
Get(r, f) == IF Has(r, f) THEN r[f] ELSE UNDEFINED

\* Number.prototype.toFixed: the decimal text with the given number of
\* fraction digits, kept as the count of its last-digit units.  A volume is
\* in thousandths of a SOL; an average fee is a quotient of millionths of
\* a SOL, rounded to the nearest millionth (for the fees of Chain the
\* double of a half-way quotient lies above the tie).
VolumeDigits == 4
FeeDigits == 6
VolumeToFixed(v) == [fixed |-> VolumeDigits, units |-> v * 10]
FeeToFixed(q) ==
  [fixed |-> FeeDigits, units |-> (2 * q[1] + q[2]) \div (2 * q[2])]

\* String.prototype.toUpperCase on the program types.
toUpperCase(s) ==
  CASE s = "unknown" -> "UNKNOWN"
    [] s = "governance" -> "GOVERNANCE"
    [] s = "amm" -> "AMM"
    [] s = "nft" -> "NFT"
    [] OTHER -> s

\* implication.includes('malicious')
IncludesMalicious(implication) ==
  implication \in {"Possible malicious upgrade"}

ZeroBreakdown == [critical |-> 0, high |-> 0, moderate |-> 0, low |-> 0]
ReportMetadata ==
  [version |-> "1.0.0", generatedBy |-> "SolProof SDK",
   generationTime |-> "now", solanaNetwork |-> "mainnet"]

\* The report of the catch block (lines 131-147).
FallbackReport(analysis) ==
  [programAddress |->
     IF Has2(analysis, "insights", "address") THEN analysis.insights.address
     ELSE "unknown",
   timestamp |-> "now",
   executiveSummary |->
     [safetyScore |-> 50, riskLevel |-> "Moderate", programType |-> "Unknown",
      keyFindings |-> <<>>, riskScoreBreakdown |-> ZeroBreakdown],
   riskAssessment |->
     [prioritizedRisks |-> <<>>, riskScoreBreakdown |-> ZeroBreakdown,
      totalRisks |-> 0],
   binaryAnalysis |->
     [size |-> 0, instructionCount |-> 0, syscalls |-> <<>>,
      likelyBehavior |-> "unknown",
      controlFlow |-> [branches |-> 0, loops |-> 0, complexity |-> "Low"],
      dependencies |-> <<>>],
   economicAnalysis |->
     [totalVolumeSOL |-> [fixed |-> VolumeDigits, units |-> 0],
      averageFeeSOL |-> [fixed |-> FeeDigits, units |-> 0],
      transactionCount |-> 0, transactionTypes |-> [none |-> TRUE],
      suspiciousVolumeSOL |-> [fixed |-> VolumeDigits, units |-> 0],
      tokenFlows |-> [topInflows |-> <<>>, topOutflows |-> <<>>,
                      concentrationRisk |-> FALSE]],
   authorityAnalysis |-> <<>>,
   callGraphAnalysis |->
     [nodes |-> <<>>, edges |-> <<>>, interactionComplexity |-> "Low"],
   vulnerabilityAnalysis |-> <<>>,
   safetyAnalysis |-> [safetyScore |-> 50, feedback |-> <<>>],
   recommendations |-> <<>>,
   metadata |-> ReportMetadata]

\* The statements of the try block that throw: the guard of line 23 and the
\* reads of a property of undefined or null after it.
generateAuditReportThrows(analysis, authorityInsights, transactionData, callGraph, vulnerabilities, safetyAssessment) ==
  \/ ~Has(analysis, "insights")
  \/ ~Has(transactionData, "economicInsights")
  \/ safetyAssessment = NULL
  \/ vulnerabilities = NULL
  \/ \E i \in 1..Len(vulnerabilities.items) : vulnerabilities.items[i] = NULL
  \/ ~Has(safetyAssessment, "risks")
  \/ \E i \in 1..Len(safetyAssessment.risks) :
       ~Has(safetyAssessment.risks[i], "implication")
  \/ ~Has(analysis.insights, "suspectedType")
  \/ ~Has(transactionData.economicInsights, "totalVolumeSOL")
  \/ authorityInsights = NULL
  \/ ~Has(analysis.insights, "controlFlow")
  \/ ~Has(callGraph, "nodes")
  \/ ~Has(transactionData.economicInsights, "averageFeeSOL")
  \/ ~Has(transactionData.economicInsights, "suspiciousVolume")
  \/ ~Has(callGraph, "edges")

CountSeverity(vulnerabilities, severity) ==
  Len(Filter(vulnerabilities,
             LAMBDA v : Has(v, "severity") /\ v.severity = severity))

\* Lines 27-32.
RiskBreakdown(vulnerabilities, risks) ==
  [critical |-> CountSeverity(vulnerabilities, "Critical"),
   high |-> CountSeverity(vulnerabilities, "High")
              + Len(Filter(risks,
                           LAMBDA r : IncludesMalicious(r.implication))),
   moderate |-> CountSeverity(vulnerabilities, "Moderate")
                  + Len(Filter(risks,
                               LAMBDA r : ~IncludesMalicious(r.implication))),
   low |-> CountSeverity(vulnerabilities, "Low")]

FindingOf(v) ==
  [type |-> Get(v, "type"), severity |-> v.severity,
   details |-> Get(v, "details"), mitigation |-> Get(v, "mitigation")]
RiskOf(r, severity) ==
  [type |-> Get(r, "issue"), severity |-> severity,
   details |-> r.implication, mitigation |-> Get(r, "mitigation")]
Map(s, F(_)) == [i \in 1..Len(s) |-> F(s[i])]

\* Mutant: the High and Moderate findings in list order, then the risks in
\* list order.
PrioritizedRisksInListOrder(vulnerabilities, risks) ==
  Map(Filter(vulnerabilities,
             LAMBDA v : Has(v, "severity")
                          /\ v.severity \in {"High", "Moderate"}), FindingOf)
    \o Map(risks,
           LAMBDA r : RiskOf(r, IF IncludesMalicious(r.implication)
                                THEN "High" ELSE "Moderate"))

\* Lines 47-72.
PrioritizedRisks(vulnerabilities, risks) ==
  Map(Filter(vulnerabilities,
             LAMBDA v : Has(v, "severity") /\ v.severity = "High"), FindingOf)
    \o Map(Filter(risks, LAMBDA r : IncludesMalicious(r.implication)),
           LAMBDA r : RiskOf(r, "High"))
    \o Map(Filter(vulnerabilities,
                  LAMBDA v : Has(v, "severity") /\ v.severity = "Moderate"),
           FindingOf)
    \o Map(Filter(risks, LAMBDA r : ~IncludesMalicious(r.implication)),
           LAMBDA r : RiskOf(r, "Moderate"))

\* Lines 74-90.
Recommendations(insights, vulnerabilities) ==
  <<[priority |-> "High", action |-> "Monitor program updates on Solscan.",
     link |-> [account |-> Get(insights, "address"), fragment |-> "events"]],
    [priority |-> IF insights.suspectedType = "governance" THEN "High"
                  ELSE "Moderate",
     action |-> "Verify governance or token logic on-chain.",
     link |-> [account |-> Get(insights, "address")]],
    [priority |-> IF Len(vulnerabilities) > 0 THEN "High" ELSE "Moderate",
     action |-> "Address detected vulnerabilities.",
     link |-> NULL]>>

\* safetyScore < 50 ? 'High' : safetyScore < 80 ? 'Moderate' : 'Low'; an
\* undefined score compares false both times.
RiskLevel(safetyAssessment) ==
  IF ~Has(safetyAssessment, "safetyScore") THEN "Low"
  ELSE IF safetyAssessment.safetyScore < 50 THEN "High"
  ELSE IF safetyAssessment.safetyScore < 80 THEN "Moderate"
  ELSE "Low"

\* The report of the try block (lines 34-45 and 92-130).
ComposedReport(analysis, authorityInsights, transactionData, callGraph, vulnerabilities, safetyAssessment) ==
  LET insights == analysis.insights
      economics == transactionData.economicInsights
      vulns == vulnerabilities.items
      risks == safetyAssessment.risks
      riskBreakdown == RiskBreakdown(vulns, risks)
      prioritizedRisks == PrioritizedRisks(vulns, risks)
      authorities == Len(authorityInsights.items)
  IN
  [programAddress |-> Get(insights, "address"),
   timestamp |-> "now",
   executiveSummary |->
     [safetyScore |-> Get(safetyAssessment, "safetyScore"),
      riskLevel |-> RiskLevel(safetyAssessment),
      programType |-> toUpperCase(insights.suspectedType),
      keyFindings |->
        <<[finding |-> "Safety Score",
           score |-> Get(safetyAssessment, "safetyScore")],
          [finding |-> "Vulnerabilities", total |-> Len(vulns),
           high |-> riskBreakdown.high, moderate |-> riskBreakdown.moderate],
          [finding |-> "Transaction Volume",
           volume |-> VolumeToFixed(economics.totalVolumeSOL)],
          [finding |-> "Authority Control", count |-> authorities,
           wording |-> IF authorities = 1 THEN "single authority"
                       ELSE "authorities"]>>,
      riskScoreBreakdown |-> riskBreakdown],
   riskAssessment |->
     [prioritizedRisks |-> prioritizedRisks,
      riskScoreBreakdown |-> riskBreakdown,
      totalRisks |-> Len(prioritizedRisks)],
   binaryAnalysis |->
     [size |-> IF Has(insights, "instructions") THEN insights.instructions * 8
               ELSE NaN,
      instructionCount |-> Get(insights, "instructions"),
      syscalls |-> Get(insights, "syscalls"),
      likelyBehavior |-> insights.suspectedType,
      controlFlow |->
        [branches |-> Get(insights.controlFlow, "branches"),
         loops |-> Get(insights.controlFlow, "loops"),
         complexity |->
           IF /\ Has(insights.controlFlow, "branches")
              /\ Has(insights.controlFlow, "loops")
              /\ insights.controlFlow.branches + insights.controlFlow.loops
                   > 70
           THEN "High" ELSE "Moderate"],
      dependencies |->
        Filter(callGraph.nodes, LAMBDA node : node # AddressOf(analysis))],
   economicAnalysis |->
     [totalVolumeSOL |-> VolumeToFixed(economics.totalVolumeSOL),
      averageFeeSOL |-> FeeToFixed(economics.averageFeeSOL),
      transactionCount |-> Get(economics, "transactionCount"),
      transactionTypes |-> Get(economics, "transactionTypes"),
      suspiciousVolumeSOL |-> VolumeToFixed(economics.suspiciousVolume),
      tokenFlows |-> Get(economics, "tokenFlowInsights")],
   authorityAnalysis |-> authorityInsights.items,
   callGraphAnalysis |->
     [nodes |-> callGraph.nodes, edges |-> callGraph.edges,
      interactionComplexity |->
        IF Len(callGraph.edges) > 50 THEN "High"
        ELSE IF Len(callGraph.edges) > 20 THEN "Moderate" ELSE "Low"],
   vulnerabilityAnalysis |-> vulns,
   safetyAnalysis |->
     [safetyScore |-> Get(safetyAssessment, "safetyScore"),
      feedback |-> risks],
   recommendations |-> Recommendations(insights, vulns),
   metadata |-> ReportMetadata]

\* Mutant: the catch block rethrows.
generateAuditReportRethrows(analysis, authorityInsights, transactionData, callGraph, vulnerabilities, safetyAssessment) ==
  IF generateAuditReportThrows(analysis, authorityInsights, transactionData,
                               callGraph, vulnerabilities, safetyAssessment)
  THEN [raised |-> TRUE, value |-> NULL]
  ELSE [raised |-> FALSE,
        value |-> ComposedReport(analysis, authorityInsights, transactionData,
                                 callGraph, vulnerabilities, safetyAssessment)]

\* The call's outcome: whether it raised, and the report it returned.
generateAuditReport(analysis, authorityInsights, transactionData, callGraph, vulnerabilities, safetyAssessment) ==
  IF generateAuditReportThrows(analysis, authorityInsights, transactionData,
                               callGraph, vulnerabilities, safetyAssessment)
  THEN [raised |-> FALSE, value |-> FallbackReport(analysis)]
  ELSE [raised |-> FALSE,
        value |-> ComposedReport(analysis, authorityInsights, transactionData,
                                 callGraph, vulnerabilities, safetyAssessment)]

\* Arguments of generateAuditReport: what the stages compute, what the
\* orchestrator substitutes (src/src/cli.js:915-925), and malformed values.
Finding(severity) ==
  [type |-> "Excessive Authority Control", severity |-> severity,
   details |-> "Single authority increases centralization risk.",
   confidence |-> 85, mitigation |-> "Distribute authority"]
MaliciousRisk ==
  [issue |-> "Upgrade authority active",
   implication |-> "Possible malicious upgrade",
   mitigation |-> "Verify the upgrade authority"]
AnalysisFallback ==
  [insights |-> [suspectedType |-> "UNKNOWN", authorityHolders |-> <<>>]]
AuditTransactionFallback ==
  [transactions |-> <<>>,
   economicInsights |->
     [totalVolumeSOL |-> 0, suspiciousVolume |-> 0, topAccounts |-> <<>>]]
EmptyBuffer == [kind |-> "buffer", fill |-> 0, markers |-> <<>>]

ReportAnalyses ==
  {NULL, [address |-> PROGRAM_A], AnalysisFallback,
   BaselineProfile(PROGRAM_A),
   ComputedProfile([kind |-> "buffer", fill |-> 8000,
                    markers |-> <<"mint">>], GOVERNANCE_PROGRAM),
   ComputedProfile(EmptyBuffer, PROGRAM_A)}
ReportAuthorities ==
  {NULL, Array(<<>>), Array(<<SomeInsight(1)>>),
   Array(<<SomeInsight(1), SomeInsight(2)>>)}
ReportTransactionData ==
  BrokenTransactionData
    \cup {createFallback,
          ComputedResult(<<"sigTransfer", "sigOther">>,
                         <<Chain("sigTransfer"), Chain("sigOther")>>,
                         PROGRAM_A)}
ReportCallGraphs ==
  {NULL, [nodes |-> <<>>], EmptyCallGraph,
   [nodes |-> <<PROGRAM_A, "WalletSrc", "WalletDst">>,
    edges |-> EdgeList(21, "swap")]}
ReportVulnerabilities ==
  {NULL, Array(<<>>), Array(<<NULL>>), Array(<<[type |-> "Untyped"]>>),
   Array(<<Finding("Moderate"), Finding("Critical"), Finding("High")>>),
   Array(<<Finding("Low"), Finding("High")>>)}
ReportSafetyAssessments ==
  {NULL, [safetyScore |-> 50], SafetyFallback,
   [risks |-> <<AuthorityRisk>>],
   [safetyScore |-> 45, risks |-> <<[issue |-> "Unexplained"]>>],
   [safetyScore |-> 35, risks |-> <<MintRisk, MaliciousRisk, VolumeRisk>>],
   [safetyScore |-> 80, risks |-> <<>>]}

VARIABLES
  rp_args,  \* the six arguments of generateAuditReport
  rp_out    \* the outcome of the call, NULL before it

rpVars == <<rp_args, rp_out>>

NoReportArgs ==
  [analysis |-> NULL, authorityInsights |-> NULL, transactionData |-> NULL,
   callGraph |-> NULL, vulnerabilities |-> NULL, safetyAssessment |-> NULL]

RpIdle ==
  /\ rp_args = NoReportArgs
  /\ rp_out = NULL

RpStart ==
  /\ rp_args \in
       {[analysis |-> a, authorityInsights |-> au, transactionData |-> td,
         callGraph |-> cg, vulnerabilities |-> v, safetyAssessment |-> sa] :
          a \in ReportAnalyses, au \in ReportAuthorities,
          td \in ReportTransactionData, cg \in ReportCallGraphs,
          v \in ReportVulnerabilities, sa \in ReportSafetyAssessments}
  /\ rp_out = NULL

GenerateAuditReport ==
  /\ rp_out = NULL
  /\ rp_out' = generateAuditReport(rp_args.analysis,
                                   rp_args.authorityInsights,
                                   rp_args.transactionData, rp_args.callGraph,
                                   rp_args.vulnerabilities,
                                   rp_args.safetyAssessment)
  /\ UNCHANGED rp_args

\* ------------------------------------------------------------------------
\* The audit-report command (src/src/cli.js:911-935): eight stages, each
\* awaited in turn behind withTimeout, which substitutes the stage's
\* fallback value when the stage rejects.
\* ------------------------------------------------------------------------
AuditStages ==
  <<"fetchProgramBinary", "analyzeBinary", "getRecentTransactions",
    "analyzeAuthorityHolders", "scanVulnerabilities", "reconstructCallGraph",
    "assessSafety", "generateAuditReport">>

\* The fallback report of lines 927-935.
AuditReportFallback(address) ==
  [programAddress |-> address,
   executiveSummary |->
     [programType |-> "UNKNOWN", safetyScore |-> 50, riskLevel |-> "Moderate",
      keyFindings |-> <<>>, riskScoreBreakdown |-> ZeroBreakdown],
   riskAssessment |-> [totalRisks |-> 0, prioritizedRisks |-> <<>>],
   binaryAnalysis |->
     [size |-> 0, instructionCount |-> 0, syscalls |-> <<>>,
      likelyBehavior |-> "Unknown",
      controlFlow |-> [complexity |-> 0, branches |-> 0, loops |-> 0]],
   economicAnalysis |->
     [totalVolumeSOL |-> 0, averageFeeSOL |-> 0, suspiciousVolumeSOL |-> 0],
   vulnerabilityAnalysis |-> <<>>,
   recommendations |-> <<>>]

\* Mutant: every text is taken for an address.
validateAddressAny(a) == TRUE
\* new PublicKey(a) accepts a: the placeholder holder of analyzeBinary is
\* no base-58 text.
validateAddress(a) == a # "8x7y...z9k2"

\* Account data the chain may hold for the program.
ProgramBinaries ==
  {EmptyBuffer,
   [kind |-> "buffer", fill |-> 4096, markers |-> <<>>],
   [kind |-> "buffer", fill |-> 8008, markers |-> <<"swap", "mint">>],
   [kind |-> "buffer", fill |-> 640, markers |-> <<"mintNFT", "borsh">>]}

\* What getRecentTransactions resolves to when the API key is set.
TransactionResults(address) ==
  {createFallback} \cup
  {ComputedResult(l, [i \in 1..Len(l) |-> Chain(l[i])], address) :
     l \in FetchedLists(MaxTxs)}

\* The findings of the vulnerability scanner, whose rule table is not part
\* of the sources at hand: any list of findings.
ScannerFindings ==
  {<<>>, <<Finding("Moderate")>>, <<Finding("High"), Finding("Low")>>,
   <<Finding("Critical"), Finding("Moderate")>>}

VARIABLES
  pl_key,       \* process.env.HELIUS_API_KEY is set
  pl_address,   \* the command's address argument
  pl_stage,     \* index in AuditStages of the stage to run next
  pl_failed,    \* the stages whose fallback value withTimeout substituted
  pl_binary, pl_analysis, pl_transactionData, pl_authorityInsights,
  pl_vulnerabilities, pl_callGraph, pl_safetyAssessment, pl_report

plVars ==
  <<pl_key, pl_address, pl_stage, pl_failed, pl_binary, pl_analysis,
    pl_transactionData, pl_authorityInsights, pl_vulnerabilities,
    pl_callGraph, pl_safetyAssessment, pl_report>>

PlIdle ==
  /\ pl_key = TRUE
  /\ pl_address = PROGRAM_A
  /\ pl_stage = 1
  /\ pl_failed = {}
  /\ pl_binary = NULL
  /\ pl_analysis = NULL
  /\ pl_transactionData = NULL
  /\ pl_authorityInsights = NULL
  /\ pl_vulnerabilities = NULL
  /\ pl_callGraph = NULL
  /\ pl_safetyAssessment = NULL
  /\ pl_report = NULL

PlStart ==
  /\ pl_key \in BOOLEAN
  /\ pl_address \in {PROGRAM_A, GOVERNANCE_PROGRAM}
  /\ pl_stage = 1
  /\ pl_failed = {}
  /\ pl_binary = NULL
  /\ pl_analysis = NULL
  /\ pl_transactionData = NULL
  /\ pl_authorityInsights = NULL
  /\ pl_vulnerabilities = NULL
  /\ pl_callGraph = NULL
  /\ pl_safetyAssessment = NULL
  /\ pl_report = NULL

\* The stage to run next is `name`; it is left behind, replaced by its
\* fallback value or not.
AtStage(name) ==
  pl_stage <= Len(AuditStages) /\ AuditStages[pl_stage] = name
StageDone(name, replaced) ==
  /\ pl_stage' = pl_stage + 1
  /\ pl_failed' = IF replaced THEN pl_failed \cup {name} ELSE pl_failed
  /\ UNCHANGED <<pl_key, pl_address>>

\* Line 913: fetchProgramBinary throws without the API key and rethrows a
\* failed or refused account lookup (src/src/lib/fetcher.js:7-24).
FetchBinaryStage ==
  /\ AtStage("fetchProgramBinary")
  /\ \/ /\ pl_key
        /\ \E b \in ProgramBinaries : pl_binary' = b
        /\ StageDone("fetchProgramBinary", FALSE)
     \/ /\ pl_binary' = EmptyBuffer
        /\ StageDone("fetchProgramBinary", TRUE)
  /\ UNCHANGED <<pl_analysis, pl_transactionData, pl_authorityInsights,
                 pl_vulnerabilities, pl_callGraph, pl_safetyAssessment,
                 pl_report>>

\* Line 915.
AnalyzeBinaryStage ==
  /\ AtStage("analyzeBinary")
  /\ LET out == analyzeBinary(pl_binary, pl_address) IN
       /\ pl_analysis' = IF out.raised THEN AnalysisFallback ELSE out.value
       /\ StageDone("analyzeBinary", out.raised)
  /\ UNCHANGED <<pl_binary, pl_transactionData, pl_authorityInsights,
                 pl_vulnerabilities, pl_callGraph, pl_safetyAssessment,
                 pl_report>>

\* Line 917: getRecentTransactions rejects only at its API-key check
\* (src/src/lib/transactions.js:27-28); every later failure ends in its own
\* createFallback().
TransactionsStage ==
  /\ AtStage("getRecentTransactions")
  /\ \/ /\ pl_key
        /\ \E r \in TransactionResults(pl_address) : pl_transactionData' = r
        /\ StageDone("getRecentTransactions", FALSE)
     \/ /\ ~pl_key
        /\ pl_transactionData' = AuditTransactionFallback
        /\ StageDone("getRecentTransactions", TRUE)
  /\ UNCHANGED <<pl_binary, pl_analysis, pl_authorityInsights,
                 pl_vulnerabilities, pl_callGraph, pl_safetyAssessment,
                 pl_report>>

\* Line 919 and src/unnamed/part_002:14-41: the holders that pass
\* validateAddress are looked up; without the API key the stage rejects,
\* and a failed lookup ends in its own [].
AuthoritiesStage ==
  /\ AtStage("analyzeAuthorityHolders")
  /\ LET holders == IF Has(pl_analysis.insights, "authorityHolders")
                    THEN Filter(pl_analysis.insights.authorityHolders,
                                validateAddress)
                    ELSE <<>>
     IN \/ /\ pl_key
           /\ \/ pl_authorityInsights' =
                   Array([i \in 1..Len(holders) |->
                            [authority |-> holders[i], totalSOLWithdrawn |-> 0,
                             walletAgeDays |-> 0, tokenMintCount |-> 0]])
              \/ pl_authorityInsights' = Array(<<>>)
           /\ StageDone("analyzeAuthorityHolders", FALSE)
        \/ /\ ~pl_key
           /\ pl_authorityInsights' = Array(<<>>)
           /\ StageDone("analyzeAuthorityHolders", TRUE)
  /\ UNCHANGED <<pl_binary, pl_analysis, pl_transactionData,
                 pl_vulnerabilities, pl_callGraph, pl_safetyAssessment,
                 pl_report>>

\* Line 921: the scanner resolves to a list of findings, or rejects.
ScanStage ==
  /\ AtStage("scanVulnerabilities")
  /\ \/ /\ \E v \in ScannerFindings : pl_vulnerabilities' = Array(v)
        /\ StageDone("scanVulnerabilities", FALSE)
     \/ /\ pl_vulnerabilities' = Array(<<>>)
        /\ StageDone("scanVulnerabilities", TRUE)
  /\ UNCHANGED <<pl_binary, pl_analysis, pl_transactionData,
                 pl_authorityInsights, pl_callGraph, pl_safetyAssessment,
                 pl_report>>

\* Line 923.
CallGraphStage ==
  /\ AtStage("reconstructCallGraph")
  /\ pl_callGraph' = reconstructCallGraph(pl_analysis, pl_transactionData)
  /\ StageDone("reconstructCallGraph", FALSE)
  /\ UNCHANGED <<pl_binary, pl_analysis, pl_transactionData,
                 pl_authorityInsights, pl_vulnerabilities,
                 pl_safetyAssessment, pl_report>>

\* Line 925.
SafetyStage ==
  /\ AtStage("assessSafety")
  /\ pl_safetyAssessment' =
       assessSafety(pl_analysis, pl_authorityInsights, pl_transactionData,
                    pl_callGraph)
  /\ StageDone("assessSafety", FALSE)
  /\ UNCHANGED <<pl_binary, pl_analysis, pl_transactionData,
                 pl_authorityInsights, pl_vulnerabilities, pl_callGraph,
                 pl_report>>

\* Lines 927-935.
ReportStage ==
  /\ AtStage("generateAuditReport")
  /\ LET out == generateAuditReport(pl_analysis, pl_authorityInsights,
                                    pl_transactionData, pl_callGraph,
                                    pl_vulnerabilities, pl_safetyAssessment)
     IN /\ pl_report' = IF out.raised THEN AuditReportFallback(pl_address)
                        ELSE out.value
        /\ StageDone("generateAuditReport", out.raised)
  /\ UNCHANGED <<pl_binary, pl_analysis, pl_transactionData,
                 pl_authorityInsights, pl_vulnerabilities, pl_callGraph,
                 pl_safetyAssessment>>

\* ------------------------------------------------------------------------
\* Authority analysis: analyzeAuthorityHolders (src/unnamed/part_002:14-41)
\* as the actions call it (src/src/cli.js:351), on the holders of the
\* binary profile that pass validateAddress.
\* ------------------------------------------------------------------------
MaxHolders == 3

AUTHORITY_A == "AuthorityA1111111111111111111111111111111"
AUTHORITY_B == "AuthorityB1111111111111111111111111111111"
CandidateAddresses == {AUTHORITY_A, AUTHORITY_B, "8x7y...z9k2"}

\* What the chain answers for an account: its balance, and the age in days
\* of its latest signature.
AccountBalance(auth) == IF auth = AUTHORITY_A THEN 2 * SolUnit ELSE 0
AccountAgeDays(auth) == IF auth = AUTHORITY_A THEN 30 ELSE 0

AuthorityInsight(auth) ==
  [authority |-> auth, totalSOLWithdrawn |-> AccountBalance(auth),
   walletAgeDays |-> AccountAgeDays(auth), tokenMintCount |-> 0]

analyzeAuthorityHoldersThrows(heliusKey) == ~heliusKey

\* Lines 18-40: one insight per element of the list, in list order; a
\* failed lookup or an element that is no public key ends in the catch.
analyzeAuthorityHolders(authorityHolders, rpc) ==
  IF rpc = "fails"
       \/ \E i \in 1..Len(authorityHolders) :
            ~validateAddress(authorityHolders[i])
  THEN <<>>
  ELSE [i \in 1..Len(authorityHolders) |->
          AuthorityInsight(authorityHolders[i])]

VARIABLES
  au_key,      \* process.env.HELIUS_API_KEY is set
  au_rpc,      \* how the lookups of the call go: "ok" or "fails"
  au_holders,  \* analysis.insights.authorityHolders
  au_out       \* what the awaited call gave, NULL before it

auVars == <<au_key, au_rpc, au_holders, au_out>>

AuIdle ==
  /\ au_key = TRUE
  /\ au_rpc = "ok"
  /\ au_holders = <<>>
  /\ au_out = NULL

AuStart ==
  /\ au_key \in BOOLEAN
  /\ au_rpc \in {"ok", "fails"}
  /\ au_holders \in SeqUpTo(CandidateAddresses, MaxHolders)
  /\ au_out = NULL

\* src/src/cli.js:351: the filtered list is analyzed; a rejection makes
\* withTimeout return its fallback [].
AnalyzeAuthorityHolders ==
  /\ au_out = NULL
  /\ au_out' =
       IF analyzeAuthorityHoldersThrows(au_key)
       THEN [insights |-> <<>>, fallback |-> TRUE]
       ELSE [insights |->
               analyzeAuthorityHolders(Filter(au_holders, validateAddress),
                                       au_rpc),
             fallback |-> FALSE]
  /\ UNCHANGED <<au_key, au_rpc, au_holders>>

\* ------------------------------------------------------------------------
\* Call graph export: visualizeGraph (src/src/lib/graphVisualizer.js:9-29),
\* which the visualize-graph command writes to a file (src/src/cli.js:1318),
\* and the DOT text the two POST /visualize-graph/:address handlers build
\* themselves (src/unnamed/part_000:751, src/src/cli.js:2154).  The text is
\* kept as its statements, in output order.
\* ------------------------------------------------------------------------
MaxExportEdges == 3

\* graphVisualizer.js:20, without the indentation and the closing ";".
EdgeStatement(edge) ==
  "\"" \o edge.from \o "\" -> \"" \o edge.to \o "\" [label=\""
    \o edge.action \o " (" \o ToString(edge.count) \o ")\"]"

\* part_000:751 and cli.js:2154: the label is the action alone (a
\* transaction kind, never empty, so `|| 'unknown'` does not act).
HandlerEdgeStatement(e) ==
  "\"" \o e.from \o "\" -> \"" \o e.to \o "\" [label=\"" \o e.action \o "\"]"

\* node.slice(0, 8) of the nodes that occur.
FirstEight(node) ==
  CASE node = "WalletSrc" -> "WalletSr"
    [] node = "WalletDst" -> "WalletDs"
    [] node = PROGRAM_A -> "ProgramA"
    [] OTHER -> node

\* graphVisualizer.js:16.
NodeStatement(node) ==
  "\"" \o node \o "\" [label=\"" \o FirstEight(node) \o "...\"]"

visualizeGraphThrows(callGraph) ==
  \/ ~Has(callGraph, "nodes")
  \/ ~Has(callGraph, "edges")

visualizeGraph(callGraph) ==
  IF visualizeGraphThrows(callGraph)
  THEN [open |-> "digraph CallGraph { }", nodes |-> <<>>, edges |-> <<>>]
  ELSE [open |-> "digraph CallGraph {",
        nodes |-> [i \in 1..Len(callGraph.nodes) |->
                     NodeStatement(callGraph.nodes[i])],
        edges |-> [i \in 1..Len(callGraph.edges) |->
                     EdgeStatement(callGraph.edges[i])]]

HandlerDotContent(callGraph) ==
  [open |-> "digraph {", nodes |-> <<>>,
   edges |-> [i \in 1..Len(callGraph.edges) |->
                HandlerEdgeStatement(callGraph.edges[i])]]

ExportPaths ==
  {"visualize-graph", "POST /visualize-graph", "server POST /visualize-graph"}
ExportEdges ==
  {[from |-> "WalletSrc", to |-> "WalletDst", action |-> "swap", count |-> 1],
   [from |-> "WalletDst", to |-> "WalletDst", action |-> "governance",
    count |-> 1],
   [from |-> PROGRAM_A, to |-> "WalletSrc", action |-> "unknown",
    count |-> 1]}
\* Graphs as reconstructCallGraph returns them, the empty one included.
ExportGraphs ==
  {[nodes |-> NodesOfEdges(<<PROGRAM_A>>, edges, 1), edges |-> edges] :
     edges \in SeqUpTo(ExportEdges, MaxExportEdges)}
    \cup {EmptyCallGraph}

VARIABLES
  gv_path,       \* the export path taken
  gv_callGraph,  \* the call graph it exports
  gv_out         \* the statements of the text it emits, NULL before

gvVars == <<gv_path, gv_callGraph, gv_out>>

GvIdle ==
  /\ gv_path = "visualize-graph"
  /\ gv_callGraph = NULL
  /\ gv_out = NULL

GvStart ==
  /\ gv_path \in ExportPaths
  /\ gv_callGraph \in ExportGraphs
  /\ gv_out = NULL

VisualizeGraph ==
  /\ gv_path = "visualize-graph"
  /\ gv_callGraph # NULL
  /\ gv_out = NULL
  /\ gv_out' = visualizeGraph(gv_callGraph)
  /\ UNCHANGED <<gv_path, gv_callGraph>>

HandleVisualizeGraph ==
  /\ gv_path # "visualize-graph"
  /\ gv_callGraph # NULL
  /\ gv_out = NULL
  /\ gv_out' = HandlerDotContent(gv_callGraph)
  /\ UNCHANGED <<gv_path, gv_callGraph>>

\* ------------------------------------------------------------------------
\* The parse phase of one attempt of getRecentTransactions
\* (src/src/lib/transactions.js:52-74): txs.map issues one
\* getParsedTransaction request per listed entry, the requests settle in any
\* order, and Promise.all gives the mapped values once all have resolved, or
\* rejects with the first rejection.
\* ------------------------------------------------------------------------
MaxParse == 3

\* The same with the values taken in the order the requests resolved.
PromiseAllMapByCompletion(list, parsedTxs, order, address) ==
  [k \in 1..Len(order) |->
     MakeTransaction(list[order[k]], parsedTxs[order[k]], address)]

\* Promise.all(txs.map(...)): the value at index i is the one the callback
\* of entry i returned, whatever the order of resolution.
PromiseAllMap(list, parsedTxs, order, address) ==
  [i \in 1..Len(list) |-> MakeTransaction(list[i], parsedTxs[i], address)]

VARIABLES
  pp_txs,      \* the signatures the data source listed, in its order
  pp_known,    \* the indices whose transaction the chain knows
  pp_settled,  \* the indices whose request resolved, in order of resolution
  pp_out       \* what Promise.all gave, NULL while it is pending

ppVars == <<pp_txs, pp_known, pp_settled, pp_out>>

PpIdle ==
  /\ pp_txs = <<>>
  /\ pp_known = {}
  /\ pp_settled = <<>>
  /\ pp_out = NULL

PpStart ==
  /\ pp_txs \in SeqUpTo(Signatures, MaxParse)
  /\ pp_known \in SUBSET (1..Len(pp_txs))
  /\ pp_settled = <<>>
  /\ pp_out = NULL

PpPending ==
  {i \in 1..Len(pp_txs) : \A k \in 1..Len(pp_settled) : pp_settled[k] # i}

\* A request resolves, to the parsed transaction or to null.
ParseResolves(i) ==
  /\ pp_out = NULL
  /\ i \in PpPending
  /\ pp_settled' = Append(pp_settled, i)
  /\ UNCHANGED <<pp_txs, pp_known, pp_out>>

\* A request rejects: Promise.all rejects and the attempt ends in the catch.
ParseRejects(i) ==
  /\ pp_out = NULL
  /\ i \in PpPending
  /\ pp_out' = [rejected |-> TRUE, transactions |-> <<>>]
  /\ UNCHANGED <<pp_txs, pp_known, pp_settled>>

\* Every request resolved: Promise.all resolves.
ParseAllResolved ==
  /\ pp_out = NULL
  /\ PpPending = {}
  /\ pp_out' =
       [rejected |-> FALSE,
        transactions |->
          PromiseAllMap(pp_txs,
                        [i \in 1..Len(pp_txs) |->
                           IF i \in pp_known THEN Chain(pp_txs[i]) ELSE NULL],
                        pp_settled, PROGRAM_A)]
  /\ UNCHANGED <<pp_txs, pp_known, pp_settled>>

\* ------------------------------------------------------------------------
\* The values of the analyze, governance and predict-risk actions
\* (src/src/cli.js:332-361, 804-816, 1086-1100): each stage is awaited in
\* turn behind withTimeout, which gives the stage's fallback argument when
\* the stage rejects.
\* ------------------------------------------------------------------------
RunCommands == {"analyze", "governance", "predict-risk"}

RunStageOrder(command) ==
  CASE command = "analyze" ->
         <<"fetchProgramBinary", "getRecentTransactions", "analyzeBinary",
           "inferBehavior", "analyzeAuthorityHolders", "scanVulnerabilities",
           "reconstructCallGraph", "assessSafety">>
    [] command = "governance" ->
         <<"fetchProgramBinary", "analyzeBinary", "analyzeAuthorityHolders",
           "getRecentTransactions", "reconstructCallGraph",
           "inferGovernance">>
    [] command = "predict-risk" ->
         <<"fetchProgramBinary", "analyzeBinary", "getRecentTransactions",
           "analyzeAuthorityHolders", "reconstructCallGraph", "assessSafety",
           "predictRisk">>

\* The fallback argument of the transaction fetch (lines 341, 812, 1092).
RunTransactionFallback(command) ==
  IF command = "analyze"
  THEN [transactions |-> <<>>,
        economicInsights |->
          [totalVolumeSOL |-> 0, suspiciousVolume |-> 0,
           transactionTypes |-> [none |-> TRUE], topAccounts |-> <<>>]]
  ELSE [transactions |-> <<>>]

VARIABLES
  rn_key,      \* process.env.HELIUS_API_KEY is set
  rn_command,  \* the action that runs
  rn_stage,    \* index in RunStageOrder of the stage to run next
  rn_val       \* the value each awaited stage gave, NULL before it

rnVars == <<rn_key, rn_command, rn_stage, rn_val>>

RunNoValues ==
  [binary |-> NULL, transactionData |-> NULL, analysis |-> NULL,
   behavior |-> NULL, authorityInsights |-> NULL, vulnerabilities |-> NULL,
   callGraph |-> NULL, safetyAssessment |-> NULL, governance |-> NULL,
   riskPrediction |-> NULL]

RnIdle ==
  /\ rn_key = TRUE
  /\ rn_command = "analyze"
  /\ rn_stage = 1
  /\ rn_val = RunNoValues

RnStart ==
  /\ rn_key \in BOOLEAN
  /\ rn_command \in RunCommands
  /\ rn_stage = 1
  /\ rn_val = RunNoValues

RunAt(name) ==
  /\ rn_stage <= Len(RunStageOrder(rn_command))
  /\ RunStageOrder(rn_command)[rn_stage] = name
RunGives(field, value) ==
  /\ rn_val' = [rn_val EXCEPT ![field] = value]
  /\ rn_stage' = rn_stage + 1
  /\ UNCHANGED <<rn_key, rn_command>>

\* fetchProgramBinary rejects without the API key and on a failed or refused
\* account lookup (src/src/lib/fetcher.js:7-24): the value is Buffer.from([]).
AwaitFetchBinary ==
  /\ RunAt("fetchProgramBinary")
  /\ \/ /\ rn_key
        /\ \E b \in ProgramBinaries : RunGives("binary", b)
     \/ RunGives("binary", EmptyBuffer)

\* getRecentTransactions rejects only at its API-key check
\* (src/src/lib/transactions.js:27-28).
AwaitTransactions ==
  /\ RunAt("getRecentTransactions")
  /\ IF rn_key
     THEN \E r \in TransactionResults(PROGRAM_A) :
            RunGives("transactionData", r)
     ELSE RunGives("transactionData", RunTransactionFallback(rn_command))

AwaitAnalyzeBinary ==
  /\ RunAt("analyzeBinary")
  /\ RunGives("analysis", analyzeBinary(rn_val.binary, PROGRAM_A).value)

AwaitInferBehavior ==
  /\ RunAt("inferBehavior")
  /\ RunGives("behavior", inferBehavior(rn_val.analysis, rn_val.transactionData))

\* The holders that pass validateAddress are handed to
\* analyzeAuthorityHolders, which rejects without the API key.
AwaitAuthorities ==
  /\ RunAt("analyzeAuthorityHolders")
  /\ LET holders == Filter(rn_val.analysis.insights.authorityHolders,
                           validateAddress)
     IN IF analyzeAuthorityHoldersThrows(rn_key)
        THEN RunGives("authorityInsights", Array(<<>>))
        ELSE \E rpc \in {"ok", "fails"} :
               RunGives("authorityInsights",
                        Array(analyzeAuthorityHolders(holders, rpc)))

\* The scanner resolves to a list of findings, or rejects.
AwaitScan ==
  /\ RunAt("scanVulnerabilities")
  /\ \E v \in ScannerFindings : RunGives("vulnerabilities", Array(v))

AwaitCallGraph ==
  /\ RunAt("reconstructCallGraph")
  /\ RunGives("callGraph",
              reconstructCallGraph(rn_val.analysis, rn_val.transactionData))

AwaitAssessSafety ==
  /\ RunAt("assessSafety")
  /\ RunGives("safetyAssessment",
              assessSafety(rn_val.analysis, rn_val.authorityInsights,
                           rn_val.transactionData, rn_val.callGraph))

AwaitInferGovernance ==
  /\ RunAt("inferGovernance")
  /\ RunGives("governance",
              inferGovernance(rn_val.authorityInsights, rn_val.callGraph))

AwaitPredictRisk ==
  /\ RunAt("predictRisk")
  /\ RunGives("riskPrediction",
              predictRisk(rn_val.authorityInsights, rn_val.transactionData,
                          rn_val.safetyAssessment))

\* ------------------------------------------------------------------------
\* The orchestrated runs: the analyze, audit-report and predict-risk actions
\* (src/src/cli.js:332-361, 911-935, 1086-1100) and the POST
\* /analyze/:address handler (src/unnamed/part_000:147-157).  Every stage
\* is one `await withTimeout(...)`: it is issued, stays in flight, and
\* resolves to its value or to the fallback argument; the next statement
\* runs after that.  Values are left out, the order is kept.
\* ------------------------------------------------------------------------
Commands == {"analyze", "POST /analyze", "audit-report", "predict-risk"}

\* The same with the safety assessment issued before the call graph.
StageOrderSafetyEarly(command) ==
  <<"fetchProgramBinary", "analyzeBinary", "getRecentTransactions",
    "analyzeAuthorityHolders", "assessSafety", "reconstructCallGraph",
    "predictRisk">>

\* The awaited calls of each action, in statement order.
StageOrder(command) ==
  CASE command \in {"analyze", "POST /analyze"} ->
         <<"fetchProgramBinary", "getRecentTransactions", "analyzeBinary",
           "inferBehavior", "analyzeAuthorityHolders", "scanVulnerabilities",
           "reconstructCallGraph", "assessSafety">>
    [] command = "audit-report" ->
         <<"fetchProgramBinary", "analyzeBinary", "getRecentTransactions",
           "analyzeAuthorityHolders", "scanVulnerabilities",
           "reconstructCallGraph", "assessSafety", "generateAuditReport">>
    [] command = "predict-risk" ->
         <<"fetchProgramBinary", "analyzeBinary", "getRecentTransactions",
           "analyzeAuthorityHolders", "reconstructCallGraph", "assessSafety",
           "predictRisk">>

VARIABLES
  or_command,   \* the action that runs
  or_valid,     \* validateAddress(address)
  or_next,      \* index in StageOrder of the next call to issue
  or_inflight,  \* the calls issued and not yet resolved
  or_resolved,  \* the calls that resolved
  or_fallback   \* those of them that resolved to the fallback argument

orVars ==
  <<or_command, or_valid, or_next, or_inflight, or_resolved, or_fallback>>

OrIdle ==
  /\ or_command = "analyze"
  /\ or_valid = FALSE
  /\ or_next = 1
  /\ or_inflight = {}
  /\ or_resolved = {}
  /\ or_fallback = {}

OrStart ==
  /\ or_command \in Commands
  /\ or_valid \in BOOLEAN
  /\ or_next = 1
  /\ or_inflight = {}
  /\ or_resolved = {}
  /\ or_fallback = {}

\* The statement after an await runs once the awaited call resolved; an
\* invalid address returns before the first call.
IssueStage ==
  /\ or_valid
  /\ or_inflight = {}
  /\ or_next <= Len(StageOrder(or_command))
  /\ or_inflight' = {StageOrder(or_command)[or_next]}
  /\ or_next' = or_next + 1
  /\ UNCHANGED <<or_command, or_valid, or_resolved, or_fallback>>

\* withTimeout returns the wrapped call's value.
StageResolves ==
  \E s \in or_inflight :
    /\ or_inflight' = or_inflight \ {s}
    /\ or_resolved' = or_resolved \cup {s}
    /\ UNCHANGED <<or_command, or_valid, or_next, or_fallback>>

\* The wrapped call rejects and withTimeout returns the fallback argument.
StageFallsBack ==
  \E s \in or_inflight :
    /\ or_inflight' = or_inflight \ {s}
    /\ or_resolved' = or_resolved \cup {s}
    /\ or_fallback' = or_fallback \cup {s}
    /\ UNCHANGED <<or_command, or_valid, or_next>>

\* ------------------------------------------------------------------------
\* Specifications.  Each one runs one part of the program from its start
\* states while the variables of the other parts rest.
\* ------------------------------------------------------------------------
vars == <<clVars, ftVars, wtVars, scVars, abVars, rpVars, plVars, cgVars,
          tfVars, orVars, auVars, gvVars, ppVars, rnVars>>

NextClassifier ==
  Classify
    /\ UNCHANGED <<ftVars, wtVars, scVars, abVars, rpVars, plVars, cgVars,
                    tfVars, orVars, auVars, gvVars, ppVars, rnVars>>
InitClassifier ==
  /\ ClStart
  /\ FtIdle
  /\ WtIdle
  /\ ScIdle
  /\ AbIdle
  /\ RpIdle
  /\ PlIdle
  /\ CgIdle
  /\ TfIdle
  /\ OrIdle
  /\ AuIdle
  /\ GvIdle
  /\ PpIdle
  /\ RnIdle
SpecClassifier == InitClassifier /\ [][NextClassifier]_vars

NextFetch ==
  \/ \E c \in Calls : StartCall(c)
       /\ UNCHANGED <<clVars, wtVars, scVars, abVars, rpVars, plVars, cgVars,
                       tfVars, orVars, auVars, gvVars, ppVars, rnVars>>
  \/ \E c \in Calls, f \in FetchFailures : FetchFails(c, f)
       /\ UNCHANGED <<clVars, wtVars, scVars, abVars, rpVars, plVars, cgVars,
                       tfVars, orVars, auVars, gvVars, ppVars, rnVars>>
  \/ \E c \in Calls : \E l \in FetchedLists(key[c].limit) :
       FetchSucceeds(c, l)
       /\ UNCHANGED <<clVars, wtVars, scVars, abVars, rpVars, plVars, cgVars,
                       tfVars, orVars, auVars, gvVars, ppVars, rnVars>>
  \/ \E c \in Calls : ParseFails(c)
       /\ UNCHANGED <<clVars, wtVars, scVars, abVars, rpVars, plVars, cgVars,
                       tfVars, orVars, auVars, gvVars, ppVars, rnVars>>
  \/ \E c \in Calls : \E known \in SUBSET (1..Len(txs[c])) :
       ParseSucceeds(c, known)
       /\ UNCHANGED <<clVars, wtVars, scVars, abVars, rpVars, plVars, cgVars,
                       tfVars, orVars, auVars, gvVars, ppVars, rnVars>>
  \/ \E c \in Calls : BackoffElapsed(c)
       /\ UNCHANGED <<clVars, wtVars, scVars, abVars, rpVars, plVars, cgVars,
                       tfVars, orVars, auVars, gvVars, ppVars, rnVars>>
  \/ \E k \in Keys : CacheExpires(k)
       /\ UNCHANGED <<clVars, wtVars, scVars, abVars, rpVars, plVars, cgVars,
                       tfVars, orVars, auVars, gvVars, ppVars, rnVars>>
InitFetch ==
  /\ FtStart
  /\ ClIdle
  /\ WtIdle
  /\ ScIdle
  /\ AbIdle
  /\ RpIdle
  /\ PlIdle
  /\ CgIdle
  /\ TfIdle
  /\ OrIdle
  /\ AuIdle
  /\ GvIdle
  /\ PpIdle
  /\ RnIdle
SpecFetch == InitFetch /\ [][NextFetch]_vars

NextTimeout ==
  \/ WtCall
       /\ UNCHANGED <<clVars, ftVars, scVars, abVars, rpVars, plVars, cgVars,
                       tfVars, orVars, auVars, gvVars, ppVars, rnVars>>
  \/ WtFnResolves
       /\ UNCHANGED <<clVars, ftVars, scVars, abVars, rpVars, plVars, cgVars,
                       tfVars, orVars, auVars, gvVars, ppVars, rnVars>>
  \/ WtFnRejects
       /\ UNCHANGED <<clVars, ftVars, scVars, abVars, rpVars, plVars, cgVars,
                       tfVars, orVars, auVars, gvVars, ppVars, rnVars>>
  \/ WtTick
       /\ UNCHANGED <<clVars, ftVars, scVars, abVars, rpVars, plVars, cgVars,
                       tfVars, orVars, auVars, gvVars, ppVars, rnVars>>
  \/ WtTimerFires
       /\ UNCHANGED <<clVars, ftVars, scVars, abVars, rpVars, plVars, cgVars,
                       tfVars, orVars, auVars, gvVars, ppVars, rnVars>>
InitTimeout ==
  /\ WtStart
  /\ ClIdle
  /\ FtIdle
  /\ ScIdle
  /\ AbIdle
  /\ RpIdle
  /\ PlIdle
  /\ CgIdle
  /\ TfIdle
  /\ OrIdle
  /\ AuIdle
  /\ GvIdle
  /\ PpIdle
  /\ RnIdle
SpecTimeout == InitTimeout /\ [][NextTimeout]_vars

NextScores ==
  \/ RunAssessSafety
       /\ UNCHANGED <<clVars, ftVars, wtVars, abVars, rpVars, plVars, cgVars,
                       tfVars, orVars, auVars, gvVars, ppVars, rnVars>>
  \/ RunInferBehavior
       /\ UNCHANGED <<clVars, ftVars, wtVars, abVars, rpVars, plVars, cgVars,
                       tfVars, orVars, auVars, gvVars, ppVars, rnVars>>
  \/ RunPredictRisk
       /\ UNCHANGED <<clVars, ftVars, wtVars, abVars, rpVars, plVars, cgVars,
                       tfVars, orVars, auVars, gvVars, ppVars, rnVars>>
  \/ RunInferGovernance
       /\ UNCHANGED <<clVars, ftVars, wtVars, abVars, rpVars, plVars, cgVars,
                       tfVars, orVars, auVars, gvVars, ppVars, rnVars>>
InitScores ==
  /\ ScStart
  /\ ClIdle
  /\ FtIdle
  /\ WtIdle
  /\ AbIdle
  /\ RpIdle
  /\ PlIdle
  /\ CgIdle
  /\ TfIdle
  /\ OrIdle
  /\ AuIdle
  /\ GvIdle
  /\ PpIdle
  /\ RnIdle
SpecScores == InitScores /\ [][NextScores]_vars

NextBinary ==
  AnalyzeBinary
    /\ UNCHANGED <<clVars, ftVars, wtVars, scVars, rpVars, plVars, cgVars,
                    tfVars, orVars, auVars, gvVars, ppVars, rnVars>>
InitBinary ==
  /\ AbStart
  /\ ClIdle
  /\ FtIdle
  /\ WtIdle
  /\ ScIdle
  /\ RpIdle
  /\ PlIdle
  /\ CgIdle
  /\ TfIdle
  /\ OrIdle
  /\ AuIdle
  /\ GvIdle
  /\ PpIdle
  /\ RnIdle
SpecBinary == InitBinary /\ [][NextBinary]_vars

NextReport ==
  GenerateAuditReport
    /\ UNCHANGED <<clVars, ftVars, wtVars, scVars, abVars, plVars, cgVars,
                    tfVars, orVars, auVars, gvVars, ppVars, rnVars>>
InitReport ==
  /\ RpStart
  /\ ClIdle
  /\ FtIdle
  /\ WtIdle
  /\ ScIdle
  /\ AbIdle
  /\ PlIdle
  /\ CgIdle
  /\ TfIdle
  /\ OrIdle
  /\ AuIdle
  /\ GvIdle
  /\ PpIdle
  /\ RnIdle
SpecReport == InitReport /\ [][NextReport]_vars

NextAudit ==
  \/ FetchBinaryStage
       /\ UNCHANGED <<clVars, ftVars, wtVars, scVars, abVars, rpVars, cgVars,
                       tfVars, orVars, auVars, gvVars, ppVars, rnVars>>
  \/ AnalyzeBinaryStage
       /\ UNCHANGED <<clVars, ftVars, wtVars, scVars, abVars, rpVars, cgVars,
                       tfVars, orVars, auVars, gvVars, ppVars, rnVars>>
  \/ TransactionsStage
       /\ UNCHANGED <<clVars, ftVars, wtVars, scVars, abVars, rpVars, cgVars,
                       tfVars, orVars, auVars, gvVars, ppVars, rnVars>>
  \/ AuthoritiesStage
       /\ UNCHANGED <<clVars, ftVars, wtVars, scVars, abVars, rpVars, cgVars,
                       tfVars, orVars, auVars, gvVars, ppVars, rnVars>>
  \/ ScanStage
       /\ UNCHANGED <<clVars, ftVars, wtVars, scVars, abVars, rpVars, cgVars,
                       tfVars, orVars, auVars, gvVars, ppVars, rnVars>>
  \/ CallGraphStage
       /\ UNCHANGED <<clVars, ftVars, wtVars, scVars, abVars, rpVars, cgVars,
                       tfVars, orVars, auVars, gvVars, ppVars, rnVars>>
  \/ SafetyStage
       /\ UNCHANGED <<clVars, ftVars, wtVars, scVars, abVars, rpVars, cgVars,
                       tfVars, orVars, auVars, gvVars, ppVars, rnVars>>
  \/ ReportStage
       /\ UNCHANGED <<clVars, ftVars, wtVars, scVars, abVars, rpVars, cgVars,
                       tfVars, orVars, auVars, gvVars, ppVars, rnVars>>
InitAudit ==
  /\ PlStart
  /\ ClIdle
  /\ FtIdle
  /\ WtIdle
  /\ ScIdle
  /\ AbIdle
  /\ RpIdle
  /\ CgIdle
  /\ TfIdle
  /\ OrIdle
  /\ AuIdle
  /\ GvIdle
  /\ PpIdle
  /\ RnIdle
SpecAudit == InitAudit /\ [][NextAudit]_vars

NextCallGraph ==
  ReconstructCallGraphs
    /\ UNCHANGED <<clVars, ftVars, wtVars, scVars, abVars, rpVars, plVars,
                    tfVars, orVars, auVars, gvVars, ppVars, rnVars>>
InitCallGraph ==
  /\ CgStart
  /\ ClIdle
  /\ FtIdle
  /\ WtIdle
  /\ ScIdle
  /\ AbIdle
  /\ RpIdle
  /\ PlIdle
  /\ TfIdle
  /\ OrIdle
  /\ AuIdle
  /\ GvIdle
  /\ PpIdle
  /\ RnIdle
SpecCallGraph == InitCallGraph /\ [][NextCallGraph]_vars

NextTokenFlows ==
  AnalyzeTokenFlows
    /\ UNCHANGED <<clVars, ftVars, wtVars, scVars, abVars, rpVars, plVars,
                    cgVars, orVars, auVars, gvVars, ppVars, rnVars>>
InitTokenFlows ==
  /\ TfStart
  /\ ClIdle
  /\ FtIdle
  /\ WtIdle
  /\ ScIdle
  /\ AbIdle
  /\ RpIdle
  /\ PlIdle
  /\ CgIdle
  /\ OrIdle
  /\ AuIdle
  /\ GvIdle
  /\ PpIdle
  /\ RnIdle
SpecTokenFlows == InitTokenFlows /\ [][NextTokenFlows]_vars

NextOrchestrator ==
  \/ IssueStage
       /\ UNCHANGED <<clVars, ftVars, wtVars, scVars, abVars, rpVars, plVars,
                       cgVars, tfVars, auVars, gvVars, ppVars, rnVars>>
  \/ StageResolves
       /\ UNCHANGED <<clVars, ftVars, wtVars, scVars, abVars, rpVars, plVars,
                       cgVars, tfVars, auVars, gvVars, ppVars, rnVars>>
  \/ StageFallsBack
       /\ UNCHANGED <<clVars, ftVars, wtVars, scVars, abVars, rpVars, plVars,
                       cgVars, tfVars, auVars, gvVars, ppVars, rnVars>>
InitOrchestrator ==
  /\ OrStart
  /\ ClIdle
  /\ FtIdle
  /\ WtIdle
  /\ ScIdle
  /\ AbIdle
  /\ RpIdle
  /\ PlIdle
  /\ CgIdle
  /\ TfIdle
  /\ AuIdle
  /\ GvIdle
  /\ PpIdle
  /\ RnIdle
SpecOrchestrator == InitOrchestrator /\ [][NextOrchestrator]_vars

NextAuthorities ==
  AnalyzeAuthorityHolders
    /\ UNCHANGED <<clVars, ftVars, wtVars, scVars, abVars, rpVars, plVars,
                    cgVars, tfVars, orVars, gvVars, ppVars, rnVars>>
InitAuthorities ==
  /\ AuStart
  /\ ClIdle
  /\ FtIdle
  /\ WtIdle
  /\ ScIdle
  /\ AbIdle
  /\ RpIdle
  /\ PlIdle
  /\ CgIdle
  /\ TfIdle
  /\ OrIdle
  /\ GvIdle
  /\ PpIdle
  /\ RnIdle
SpecAuthorities == InitAuthorities /\ [][NextAuthorities]_vars

NextGraphExport ==
  \/ VisualizeGraph
       /\ UNCHANGED <<clVars, ftVars, wtVars, scVars, abVars, rpVars, plVars,
                       cgVars, tfVars, orVars, auVars, ppVars, rnVars>>
  \/ HandleVisualizeGraph
       /\ UNCHANGED <<clVars, ftVars, wtVars, scVars, abVars, rpVars, plVars,
                       cgVars, tfVars, orVars, auVars, ppVars, rnVars>>
InitGraphExport ==
  /\ GvStart
  /\ ClIdle
  /\ FtIdle
  /\ WtIdle
  /\ ScIdle
  /\ AbIdle
  /\ RpIdle
  /\ PlIdle
  /\ CgIdle
  /\ TfIdle
  /\ OrIdle
  /\ AuIdle
  /\ PpIdle
  /\ RnIdle
SpecGraphExport == InitGraphExport /\ [][NextGraphExport]_vars

NextParse ==
  \/ \E i \in 1..MaxParse + 1 : ParseResolves(i)
       /\ UNCHANGED <<clVars, ftVars, wtVars, scVars, abVars, rpVars, plVars,
                       cgVars, tfVars, orVars, auVars, gvVars, rnVars>>
  \/ \E i \in 1..MaxParse + 1 : ParseRejects(i)
       /\ UNCHANGED <<clVars, ftVars, wtVars, scVars, abVars, rpVars, plVars,
                       cgVars, tfVars, orVars, auVars, gvVars, rnVars>>
  \/ ParseAllResolved
       /\ UNCHANGED <<clVars, ftVars, wtVars, scVars, abVars, rpVars, plVars,
                       cgVars, tfVars, orVars, auVars, gvVars, rnVars>>
InitParse ==
  /\ PpStart
  /\ ClIdle
  /\ FtIdle
  /\ WtIdle
  /\ ScIdle
  /\ AbIdle
  /\ RpIdle
  /\ PlIdle
  /\ CgIdle
  /\ TfIdle
  /\ OrIdle
  /\ AuIdle
  /\ GvIdle
  /\ RnIdle
SpecParse == InitParse /\ [][NextParse]_vars

NextRuns ==
  \/ AwaitFetchBinary
       /\ UNCHANGED <<clVars, ftVars, wtVars, scVars, abVars, rpVars, plVars,
                       cgVars, tfVars, orVars, auVars, gvVars, ppVars>>
  \/ AwaitTransactions
       /\ UNCHANGED <<clVars, ftVars, wtVars, scVars, abVars, rpVars, plVars,
                       cgVars, tfVars, orVars, auVars, gvVars, ppVars>>
  \/ AwaitAnalyzeBinary
       /\ UNCHANGED <<clVars, ftVars, wtVars, scVars, abVars, rpVars, plVars,
                       cgVars, tfVars, orVars, auVars, gvVars, ppVars>>
  \/ AwaitInferBehavior
       /\ UNCHANGED <<clVars, ftVars, wtVars, scVars, abVars, rpVars, plVars,
                       cgVars, tfVars, orVars, auVars, gvVars, ppVars>>
  \/ AwaitAuthorities
       /\ UNCHANGED <<clVars, ftVars, wtVars, scVars, abVars, rpVars, plVars,
                       cgVars, tfVars, orVars, auVars, gvVars, ppVars>>
  \/ AwaitScan
       /\ UNCHANGED <<clVars, ftVars, wtVars, scVars, abVars, rpVars, plVars,
                       cgVars, tfVars, orVars, auVars, gvVars, ppVars>>
  \/ AwaitCallGraph
       /\ UNCHANGED <<clVars, ftVars, wtVars, scVars, abVars, rpVars, plVars,
                       cgVars, tfVars, orVars, auVars, gvVars, ppVars>>
  \/ AwaitAssessSafety
       /\ UNCHANGED <<clVars, ftVars, wtVars, scVars, abVars, rpVars, plVars,
                       cgVars, tfVars, orVars, auVars, gvVars, ppVars>>
  \/ AwaitInferGovernance
       /\ UNCHANGED <<clVars, ftVars, wtVars, scVars, abVars, rpVars, plVars,
                       cgVars, tfVars, orVars, auVars, gvVars, ppVars>>
  \/ AwaitPredictRisk
       /\ UNCHANGED <<clVars, ftVars, wtVars, scVars, abVars, rpVars, plVars,
                       cgVars, tfVars, orVars, auVars, gvVars, ppVars>>
InitRuns ==
  /\ RnStart
  /\ ClIdle
  /\ FtIdle
  /\ WtIdle
  /\ ScIdle
  /\ AbIdle
  /\ RpIdle
  /\ PlIdle
  /\ CgIdle
  /\ TfIdle
  /\ OrIdle
  /\ AuIdle
  /\ GvIdle
  /\ PpIdle
SpecRuns == InitRuns /\ [][NextRuns]_vars

\* ---- Properties of getRecentTransactions --------------------------------
BackoffSchedule == <<1000, 2000, 4000, 8000, 16000>>

NeutralResult(r) ==
  /\ r.transactions = <<>>
  /\ r.economicInsights.totalVolumeSOL = 0
  /\ r.economicInsights.averageFeeSOL = <<0, 1>>
  /\ r.economicInsights.transactionCount = 0
  /\ r.economicInsights.suspiciousVolume = 0
  /\ \A b \in DOMAIN r.economicInsights.transactionTypes :
       /\ r.economicInsights.transactionTypes[b].count = 0
       /\ r.economicInsights.transactionTypes[b].volumeSOL = 0
  /\ r.economicInsights.tokenFlowInsights.topOutflows = <<>>
  /\ r.economicInsights.tokenFlowInsights.topInflows = <<>>
  /\ r.economicInsights.tokenFlowInsights.concentrationRisk = FALSE
  /\ r.economicInsights.transactionVolumeAnalysis.meanVolumeSOL = <<0, 1>>
  /\ r.economicInsights.transactionVolumeAnalysis.stdDevVolumeSOL = <<0, 1>>
  /\ r.economicInsights.transactionVolumeAnalysis.highVolatility = FALSE

FailedAttempts(c) ==
  Len(waits[c]) + Bit(pc[c] = "done" /\ via[c] = "fallback")

C2_SuccessReturned ==
  [][\A c \in Calls :
       /\ (outcome'[c] = "ok" /\ outcome[c] # "ok") =>
            /\ pc'[c] = "done"
            /\ via'[c] = "computed"
            /\ fetches'[c] = fetches[c]
            /\ Len(ret'[c].transactions) = Len(txs[c])
            /\ \A i \in 1..Len(txs[c]) :
                 /\ ret'[c].transactions[i].signature = txs[c][i]
                 /\ ret'[c].transactions[i].details = parsed'[c][i]
                 /\ parsed'[c][i] \in {NULL, Chain(txs[c][i])}
            /\ ret'[c].economicInsights.transactionCount = Len(txs[c])
            /\ ret'[c].economicInsights.totalVolumeSOL =
                 Sum(parsed'[c],
                     LAMBDA p : IF p = NULL THEN 0 ELSE Abs(p.pre - p.post))
       /\ pc[c] = "done" =>
            /\ pc'[c] = "done"
            /\ fetches'[c] = fetches[c]
            /\ ret'[c] = ret[c]]_vars

\* Four failed attempts, then a fifth that succeeds with a non-empty list.
C2_Witness ==
  \E c \in Calls :
    /\ pc[c] = "done"
    /\ via[c] = "computed"
    /\ fetches[c] = 5
    /\ Len(waits[c]) = 4
    /\ ret[c].economicInsights.totalVolumeSOL > 0

\* ---- Properties of the classifier --------------------------------------
ClIxs == cl_parsedTx.instructions
ClHasGovernanceMarker ==
  \E i \in 1..Len(ClIxs) :
    \/ ClIxs[i].programId \in {GOVERNANCE_PROGRAM, SMPL_PROGRAM}
    \/ ClIxs[i].ptype \in {"createProposal", "vote"}
ClTokenPositions == {i \in 1..Len(ClIxs) : ClIxs[i].programId = TOKEN_PROGRAM}
ClFirstToken == ClIxs[CHOOSE i \in ClTokenPositions :
                        \A j \in ClTokenPositions : i <= j]
ClTokenRuleMatches ==
  /\ ClTokenPositions # {}
  /\ ClFirstToken.ptype \in {"transfer", "mint", "burn"}
ClHasSwapVenue ==
  \E i \in 1..Len(ClIxs) :
    ClIxs[i].programId \in {RAYDIUM_PROGRAM, PUMP_PROGRAM, cl_address}
ClHasNftMarker ==
  \E i \in 1..Len(ClIxs) :
    ClIxs[i].programId = METADATA_PROGRAM \/ ClIxs[i].ptype = "mintNFT"

\* C8 (as stated): governance wins over everything, and a transaction
\* without a governance marker that contains a token-program instruction is
\* always classified transfer, mint or burn, by a token instruction's
\* parsed type.
C8_TokenAlwaysSubclassified ==
  (cl_type # "pending" /\ cl_parsedTx # NULL) =>
    /\ ClHasGovernanceMarker => cl_type = "governance"
    /\ (~ClHasGovernanceMarker /\ ClTokenPositions # {}) =>
         /\ cl_type \in {"transfer", "mint", "burn"}
         /\ \E i \in ClTokenPositions : cl_type = ClIxs[i].ptype

\* C8 (amended): the rule order is governance > token > swap > nft > custom
\* > unknown, first match wins, where the token rule matches only when the
\* FIRST token-program instruction's parsed type is transfer, mint or burn
\* (then that type is the kind, even with a swap venue or the analyzed
\* program present); otherwise the later rules decide.
C8_Precedence ==
  (cl_type # "pending" /\ cl_parsedTx # NULL) =>
    /\ ClHasGovernanceMarker => cl_type = "governance"
    /\ (~ClHasGovernanceMarker /\ ClTokenRuleMatches) =>
         cl_type = ClFirstToken.ptype
    /\ (~ClHasGovernanceMarker /\ ~ClTokenRuleMatches /\ ClHasSwapVenue) =>
         cl_type = "swap"
    /\ (~ClHasGovernanceMarker /\ ~ClTokenRuleMatches /\ ~ClHasSwapVenue
          /\ ClHasNftMarker) => cl_type = "nft_mint"
    /\ (~ClHasGovernanceMarker /\ ~ClTokenRuleMatches /\ ~ClHasSwapVenue
          /\ ~ClHasNftMarker) => cl_type = "unknown"

\* A token transfer next to a swap-venue instruction, classified transfer.
C8_Witness ==
  /\ cl_parsedTx # NULL
  /\ cl_type = "transfer"
  /\ ClHasSwapVenue
  /\ ~ClHasGovernanceMarker

\* ---- Properties of the score stages -------------------------------------
SafetyRuleOrder ==
  <<"Potential unchecked minting", "Single authority",
    "High suspicious volume", "Complex interactions">>
SafetyRuleRank(issue) == CHOOSE k \in 1..4 : SafetyRuleOrder[k] = issue

WellFormedSafetyArgs ==
  /\ Has2(sc_args.analysis, "insights", "hiddenMint")
  /\ sc_args.authorityInsights # NULL
  /\ Has2(sc_args.transactionData, "economicInsights", "totalVolumeSOL")
  /\ Has2(sc_args.transactionData, "economicInsights", "suspiciousVolume")
  /\ Has(sc_args.callGraph, "edges")

SafetyTriggered ==
  LET e == sc_args.transactionData.economicInsights IN
  <<sc_args.analysis.insights.hiddenMint,
    Len(sc_args.authorityInsights.items) = 1,
    2 * e.suspiciousVolume > e.totalVolumeSOL,
    Len(sc_args.callGraph.edges) >= 51>>

\* C6: on well-formed inputs assessSafety returns 80 - 20[hiddenMint]
\* - 10[one authority] - 15[suspicious > half of total] - 10[> 50 edges],
\* clamped to [0,100], with exactly one risk entry per triggered rule, in
\* the fixed rule order.
C6_SafetyFormula ==
  (sc_fn = "assessSafety" /\ sc_out # NULL /\ WellFormedSafetyArgs) =>
    LET t == SafetyTriggered
        raw == 80 - 20 * Bit(t[1]) - 10 * Bit(t[2]) - 15 * Bit(t[3])
                  - 10 * Bit(t[4])
        risks == sc_out.risks
    IN /\ sc_out.safetyScore = Max(0, Min(100, raw))
       /\ \A k \in 1..4 :
            t[k] <=> \E i \in 1..Len(risks) : risks[i].issue = SafetyRuleOrder[k]
       /\ \A i \in 1..Len(risks) : risks[i].issue \in
            {SafetyRuleOrder[k] : k \in 1..4}
       /\ \A i, j \in 1..Len(risks) :
            i < j => SafetyRuleRank(risks[i].issue)
                       < SafetyRuleRank(risks[j].issue)

\* All four rules fire, the complexity rule on 51 edges: score 25.
C6_Witness ==
  /\ sc_fn = "assessSafety"
  /\ sc_out # NULL
  /\ WellFormedSafetyArgs
  /\ Len(sc_args.callGraph.edges) = 51
  /\ sc_out.safetyScore = 25
  /\ Len(sc_out.risks) = 4

InBounds(x) == 0 <= x /\ x <= 100

\* C7: every score a stage returns, computed or fallback, lies in 0..100.
C7_ScoresInBounds ==
  sc_out # NULL =>
    /\ sc_fn = "assessSafety" => InBounds(sc_out.safetyScore)
    /\ sc_fn = "inferBehavior" =>
         /\ InBounds(sc_out.scamProbability)
         /\ InBounds(sc_out.launderingLikelihood)
    /\ sc_fn = "predictRisk" => InBounds(sc_out.riskLikelihood)
    /\ sc_fn = "inferGovernance" => InBounds(sc_out.trustScore)

\* inferBehavior with every increment applied: 90 and 80.
C7_Witness ==
  /\ sc_fn = "inferBehavior"
  /\ sc_out # NULL
  /\ sc_out.scamProbability = 90
  /\ sc_out.launderingLikelihood = 80

\* ---- Properties of analyzeBinary ----------------------------------------
AbLength ==
  ab_binary.fill
    + Sum(ab_binary.markers,
          LAMBDA m : IF m \in {"swap", "mint"} THEN 4
                     ELSE IF m = "mintNFT" THEN 7
                     ELSE IF m = "borsh" THEN 5 ELSE 3)

\* C9: for every byte buffer B, instructions = floor(len(B)/8), branches =
\* floor(instructions/10), loops = floor(instructions/20), and
\* reentrancyRisk is 'Moderate' exactly when instructions > 1000.
C9_InstructionEstimate ==
  (ab_out # NULL /\ ab_binary.kind = "buffer") =>
    LET i == ab_out.value.insights IN
    /\ ~ab_out.raised
    /\ 8 * i.instructions <= AbLength
    /\ AbLength < 8 * i.instructions + 8
    /\ 10 * i.controlFlow.branches <= i.instructions
    /\ i.instructions < 10 * i.controlFlow.branches + 10
    /\ 20 * i.controlFlow.loops <= i.instructions
    /\ i.instructions < 20 * i.controlFlow.loops + 20
    /\ i.reentrancyRisk = (IF i.instructions >= 1001 THEN "Moderate"
                           ELSE "Low")
    /\ (AbLength = 4096 /\ ab_binary.markers = <<>>) =>
         /\ i.instructions = 512
         /\ i.controlFlow.branches = 51
         /\ i.controlFlow.loops = 25
         /\ i.reentrancyRisk = "Low"

\* A buffer of 8008 bytes: 1001 instructions, 'Moderate'.
C9_Witness ==
  /\ ab_out # NULL
  /\ ab_binary.kind = "buffer"
  /\ AbLength = 8008
  /\ ab_out.value.insights.instructions = 1001
  /\ ab_out.value.insights.controlFlow.branches = 100
  /\ ab_out.value.insights.controlFlow.loops = 50
  /\ ab_out.value.insights.reentrancyRisk = "Moderate"

AbHasMarker(m) ==
  \E i \in 1..Len(ab_binary.markers) : ab_binary.markers[i] = m

\* C11: the suspected type of a byte buffer follows a fixed precedence: the
\* governance program's address gives 'governance' whatever the bytes;
\* otherwise the marker 'swap' gives 'amm', also next to 'mintNFT';
\* otherwise 'mintNFT' gives 'nft'; otherwise 'unknown'.
C11_TypePrecedence ==
  (ab_out # NULL /\ ab_binary.kind = "buffer") =>
    ab_out.value.insights.suspectedType =
      (IF ab_address = GOVERNANCE_PROGRAM THEN "governance"
       ELSE IF AbHasMarker("swap") THEN "amm"
       ELSE IF AbHasMarker("mintNFT") THEN "nft"
       ELSE "unknown")

\* A buffer that holds both markers, at another address: 'amm'.
C11_Witness ==
  /\ ab_out # NULL
  /\ ab_binary.kind = "buffer"
  /\ ab_address # GOVERNANCE_PROGRAM
  /\ ab_binary.markers = <<"mintNFT", "swap">>
  /\ ab_out.value.insights.suspectedType = "amm"

\* C10: analyzeBinary never raises; on an input without length or includes
\* (missing, null, a number, a plain object) it returns the neutral
\* baseline profile.
C10_NeverRaises ==
  ab_out # NULL =>
    /\ ~ab_out.raised
    /\ ab_binary.kind \in {"undefined", "null", "number", "object"} =>
         LET i == ab_out.value.insights IN
         /\ i.instructions = 0
         /\ i.syscalls = <<>>
         /\ i.suspectedType = "unknown"
         /\ i.reentrancyRisk = "Low"
         /\ i.controlFlow.branches = 0
         /\ i.controlFlow.loops = 0
         /\ i.usesBorsh = FALSE
         /\ i.hiddenMint = FALSE
         /\ i.authorityHolders = <<>>

\* A missing binary, for the governance program's address: the baseline.
C10_Witness ==
  /\ ab_out # NULL
  /\ ab_binary.kind = "undefined"
  /\ ab_address = GOVERNANCE_PROGRAM
  /\ ~ab_out.raised
  /\ ab_out.value.insights.suspectedType = "unknown"
  /\ ab_out.value.insights.authorityHolders = <<>>

\* ---- Properties of generateAuditReport and the audit-report command -------
ReportFields ==
  {"programAddress", "timestamp", "executiveSummary", "riskAssessment",
   "binaryAnalysis", "economicAnalysis", "authorityAnalysis",
   "callGraphAnalysis", "vulnerabilityAnalysis", "safetyAnalysis",
   "recommendations", "metadata"}

\* C5: generateAuditReport never raises; for well-formed, missing and
\* malformed stage outputs alike it returns a report that has all twelve
\* fields.
C5_AlwaysAReport ==
  rp_out # NULL =>
    /\ ~rp_out.raised
    /\ ReportFields \subseteq DOMAIN rp_out.value

\* A computed profile and a missing vulnerability list: the call returned
\* a report with the twelve fields.
C5_Witness ==
  /\ rp_out # NULL
  /\ Has2(rp_args.analysis, "insights", "controlFlow")
  /\ rp_args.vulnerabilities = NULL
  /\ ~rp_out.raised
  /\ ReportFields \subseteq DOMAIN rp_out.value
  /\ rp_out.value.programAddress = rp_args.analysis.insights.address

AuditDone == pl_stage > Len(AuditStages)

C3_ResolvesWithinBudget ==
  /\ (wt_pc = "resolved" /\ wt_fn = "resolves" /\ ~wt_aborted) =>
       wt_out = wt_site.result
  /\ (wt_pc = "resolved" /\ wt_fn \in {"rejects", "throws"}) =>
       wt_out = wt_site.fallback
  /\ wt_timer = "fired" => (wt_pc = "resolved" /\ wt_out = wt_site.fallback)

\* ---- Properties of reconstructCallGraph ---------------------------------
Range(s) == {s[i] : i \in 1..Len(s)}

\* Both calls were handed a profile with insights and lists of transactions.
CgWellFormed ==
  /\ cg_analysis # NULL
  /\ "insights" \in DOMAIN cg_analysis
  /\ cg_first # NULL
  /\ "transactions" \in DOMAIN cg_first
  /\ \A i \in 1..Len(cg_first.transactions) :
       "instructions" \in DOMAIN cg_first.transactions[i]

\* C12: the graph of T1 ++ T2 has the edges of T1's graph followed by the
\* edges of T2's graph, and as node set the union of the two node sets.
C12_Additive ==
  (cg_out # NULL /\ CgWellFormed) =>
    /\ cg_out.joined.edges = cg_out.first.edges \o cg_out.second.edges
    /\ Range(cg_out.joined.nodes)
         = Range(cg_out.first.nodes) \cup Range(cg_out.second.nodes)

\* Two lists that each give an edge, the same one.
C12_Witness ==
  /\ cg_out # NULL
  /\ CgWellFormed
  /\ cg_out.first.edges # <<>>
  /\ cg_out.second.edges # <<>>
  /\ cg_out.first.edges[1] = cg_out.second.edges[1]
  /\ Len(cg_out.joined.edges)
       = Len(cg_out.first.edges) + Len(cg_out.second.edges)

\* C13, as stated: every graph returned, for any inputs, has the analyzed
\* program's address among its nodes.
C13_RootAlways ==
  cg_out # NULL => PROGRAM_A \in Range(cg_out.first.nodes)

\* C13, amended: a graph built from a profile with insights and a list of
\* transactions with instructions has the profile's address (undefined when
\* the profile carries none) as its first node; for any other input the
\* graph is the empty one, without nodes.
C13_RootWhenWellFormed ==
  cg_out # NULL =>
    IF CgWellFormed
    THEN /\ Len(cg_out.first.nodes) >= 1
         /\ cg_out.first.nodes[1] =
              (IF "address" \in DOMAIN cg_analysis.insights
               THEN cg_analysis.insights.address ELSE "undefined")
    ELSE cg_out.first = [nodes |-> <<>>, edges |-> <<>>]

\* A profile of PROGRAM_A and a list whose edges touch other accounts: the
\* address comes first among several nodes.
C13_Witness ==
  /\ cg_out # NULL
  /\ CgWellFormed
  /\ cg_out.first.nodes[1] = PROGRAM_A
  /\ Len(cg_out.first.nodes) >= 3
  /\ cg_out.first.edges # <<>>

\* The instructions of the first list that have two accounts or more, as
\* <<transaction index, instruction index>>, and their place in list order.
CgSources ==
  {p \in (1..MaxGraphTxs + 1) \X (1..MaxGraphIx + 1) :
     /\ p[1] <= Len(cg_first.transactions)
     /\ p[2] <= Len(cg_first.transactions[p[1]].instructions)
     /\ "accounts" \in DOMAIN cg_first.transactions[p[1]].instructions[p[2]]
     /\ Len(cg_first.transactions[p[1]].instructions[p[2]].accounts) >= 2}
CgPlace(p) ==
  1 + Cardinality({q \in CgSources :
                     q[1] < p[1] \/ (q[1] = p[1] /\ q[2] < p[2])})

GovWellFormed ==
  /\ sc_fn = "inferGovernance"
  /\ sc_out # NULL
  /\ sc_args.authorityInsights # NULL
  /\ sc_args.callGraph # NULL
  /\ "edges" \in DOMAIN sc_args.callGraph
GovAuthorities == Len(sc_args.authorityInsights.items)
GovHasVotingEdge ==
  \E i \in 1..Len(sc_args.callGraph.edges) :
    sc_args.callGraph.edges[i].action = "governance"

\* C15: on well-formed inputs the type is 'Decentralized' iff there is more
\* than one authority insight, else 'Centralized' (also for none), and the
\* trust score is 70 or 50 by that type plus 10 when some edge has action
\* 'governance', capped at 100; one authority and no governance edge give
\* Centralized/50.
C15_GovernanceRule ==
  GovWellFormed =>
    /\ sc_out.type \in {"Decentralized", "Centralized"}
    /\ sc_out.type = "Decentralized" <=> GovAuthorities > 1
    /\ sc_out.trustScore <= 100
    /\ sc_out.trustScore =
         (IF sc_out.type = "Decentralized" THEN 70 ELSE 50)
           + (IF GovHasVotingEdge THEN 10 ELSE 0)
    /\ (GovAuthorities = 1 /\ ~GovHasVotingEdge) =>
         (sc_out.type = "Centralized" /\ sc_out.trustScore = 50)

\* One authority and a graph whose edges are all swaps.
C15_Witness ==
  /\ GovWellFormed
  /\ GovAuthorities = 1
  /\ sc_args.callGraph.edges # <<>>
  /\ ~GovHasVotingEdge
  /\ sc_out.type = "Centralized"
  /\ sc_out.trustScore = 50

\* ---- Properties of analyzeTokenFlows -------------------------------------
\* The outflows of the call, read off its argument: what the program sent
\* to an account in all, the accounts it sent to, and the whole it sent.
TfSentTo(account) ==
  Sum(tf_transactions,
      LAMBDA tx : IF /\ tx.instructions[1].info.source = PROGRAM_A
                     /\ tx.instructions[1].info.destination = account
                  THEN tx.instructions[1].info.amount ELSE 0)
TfReceivers ==
  {tf_transactions[i].instructions[1].info.destination :
     i \in {k \in 1..Len(tf_transactions) :
              tf_transactions[k].instructions[1].info.source = PROGRAM_A}}
TfSentInAll ==
  Sum(tf_transactions,
      LAMBDA tx : IF tx.instructions[1].info.source = PROGRAM_A
                  THEN tx.instructions[1].info.amount ELSE 0)
TfLargestExceedsFourFifths ==
  \E a \in TfReceivers :
    /\ \A b \in TfReceivers : TfSentTo(a) >= TfSentTo(b)
    /\ 5 * TfSentTo(a) > 4 * TfSentInAll

\* C16: concentrationRisk is true iff the largest aggregated outflow
\* exceeds 80% of the outflow volume summed over all aggregated outflows,
\* not only over those kept in the top-5 list.
C16_ConcentrationOverAll ==
  tf_out # NULL => (tf_out.concentrationRisk <=> TfLargestExceedsFourFifths)

\* The same restricted to calls with at most TopFlows receiving accounts,
\* where the top-5 list holds every aggregated outflow.
TfConcentrationUpToTopFlows ==
  (tf_out # NULL /\ Cardinality(TfReceivers) <= TopFlows) =>
    (tf_out.concentrationRisk <=> TfLargestExceedsFourFifths)

\* ---- Properties of suspiciousVolume --------------------------------------
HasTokenInstruction(instructions) ==
  \E k \in 1..Len(instructions) : instructions[k].programId = TOKEN_PROGRAM
Returned(c) == pc[c] = "done" /\ ret[c] # NULL

\* C17: in every result of getRecentTransactions, the fallback included,
\* suspiciousVolume is the sum of volumeSOL over exactly the transactions
\* without a token-program instruction, a transaction whose parse gave
\* nothing counting as one of them with volume 0; so it lies between 0 and
\* totalVolumeSOL.
C17_SuspiciousVolume ==
  \A c \in Calls :
    Returned(c) =>
      LET ts == ret[c].transactions
          e == ret[c].economicInsights
      IN /\ e.suspiciousVolume =
              Sum(ts, LAMBDA tx : IF HasTokenInstruction(tx.instructions)
                                  THEN 0 ELSE tx.volumeSOL)
         /\ \A i \in 1..Len(ts) :
              ts[i].details = NULL =>
                /\ ~HasTokenInstruction(ts[i].instructions)
                /\ ts[i].volumeSOL = 0
         /\ via[c] = "computed" =>
              /\ Len(ts) = Len(parsed[c])
              /\ \A i \in 1..Len(ts) : ts[i].details = parsed[c][i]
         /\ 0 <= e.suspiciousVolume
         /\ e.suspiciousVolume <= e.totalVolumeSOL

\* A computed result with a token transfer and a non-standard transaction,
\* both moving SOL: the suspicious volume is part of the total only.
C17_Witness ==
  \E c \in Calls :
    /\ Returned(c)
    /\ via[c] = "computed"
    /\ Len(ret[c].transactions) = 2
    /\ \E i, j \in 1..2 :
         /\ HasTokenInstruction(ret[c].transactions[i].instructions)
         /\ ret[c].transactions[i].volumeSOL > 0
         /\ ~HasTokenInstruction(ret[c].transactions[j].instructions)
         /\ ret[c].transactions[j].volumeSOL > 0
    /\ ret[c].economicInsights.suspiciousVolume > 0
    /\ ret[c].economicInsights.suspiciousVolume
         < ret[c].economicInsights.totalVolumeSOL

\* ---- Properties of the orchestrated runs ---------------------------------
OrIssued == or_inflight \cup or_resolved

\* C18: in an analyze or audit-report run the transaction fetch is issued
\* without waiting for the binary fetch to complete, so that both can be in
\* flight at once: by the time the binary fetch has resolved, the
\* transaction fetch has been issued.
C18_TransactionFetchNotWaiting ==
  (or_command \in {"analyze", "POST /analyze", "audit-report"}
     /\ "fetchProgramBinary" \in or_resolved)
    => "getRecentTransactions" \in OrIssued

\* What the runs do instead: at most one call is in flight, so the two
\* fetches never are in flight together.
OrOneInFlight ==
  /\ Cardinality(or_inflight) <= 1
  /\ ~({"fetchProgramBinary", "getRecentTransactions"} \subseteq or_inflight)

\* The stages whose output a stage consumes.
Consumes(stage) ==
  CASE stage = "analyzeBinary" -> {"fetchProgramBinary"}
    [] stage \in {"inferBehavior", "reconstructCallGraph"} ->
         {"analyzeBinary", "getRecentTransactions"}
    [] stage = "assessSafety" ->
         {"analyzeBinary", "analyzeAuthorityHolders",
          "getRecentTransactions", "reconstructCallGraph"}
    [] stage \in {"generateAuditReport", "predictRisk"} -> {"assessSafety"}
    [] OTHER -> {}

\* C19: in every run no stage starts before every stage whose output it
\* consumes has resolved, to a value or to its fallback.
C19_DependenciesResolvedFirst ==
  \A s \in OrIssued : Consumes(s) \subseteq or_resolved

\* A predict-risk run whose binary profile came from the fallback and whose
\* risk prediction is in flight after the safety assessment resolved.
C19_Witness ==
  /\ or_command = "predict-risk"
  /\ "predictRisk" \in or_inflight
  /\ "assessSafety" \in or_resolved
  /\ "analyzeBinary" \in or_fallback

\* ---- Properties of the authority analysis --------------------------------
AuLookedUp == au_out # NULL /\ au_key /\ au_rpc = "ok"
AuValidCandidates ==
  {au_holders[i] : i \in {k \in 1..Len(au_holders) :
                            au_holders[k] \notin {"8x7y...z9k2"}}}

\* C20: the analysis yields exactly one insight per distinct syntactically
\* valid candidate address; a candidate list that repeats a valid address
\* gives a single insight for it.
C20_OneInsightPerDistinctAuthority ==
  AuLookedUp =>
    /\ Len(au_out.insights) = Cardinality(AuValidCandidates)
    /\ \A a \in AuValidCandidates :
         Cardinality({i \in 1..Len(au_out.insights) :
                        au_out.insights[i].authority = a}) = 1

\* What the call gives instead: one insight per valid element of the list,
\* repeated ones included.
AuOneInsightPerElement ==
  AuLookedUp =>
    /\ \A a \in AuValidCandidates :
         Cardinality({i \in 1..Len(au_out.insights) :
                        au_out.insights[i].authority = a})
           = Cardinality({k \in 1..Len(au_holders) : au_holders[k] = a})
    /\ \A i \in 1..Len(au_out.insights) :
         au_out.insights[i].authority \in AuValidCandidates

\* ---- Properties of predictRisk -------------------------------------------
RiskCalled == sc_fn = "predictRisk" /\ sc_out # NULL
RiskWellFormed ==
  /\ sc_args.authorityInsights # NULL
  /\ sc_args.safetyAssessment # NULL
  /\ sc_args.transactionData # NULL
  /\ "economicInsights" \in DOMAIN sc_args.transactionData
  /\ "transactionVolumeAnalysis"
       \in DOMAIN sc_args.transactionData.economicInsights
RiskVolatile ==
  sc_args.transactionData.economicInsights.transactionVolumeAnalysis
    .highVolatility
RiskSingleAuthority == Len(sc_args.authorityInsights.items) = 1
RiskLowSafety ==
  /\ "safetyScore" \in DOMAIN sc_args.safetyAssessment
  /\ sc_args.safetyAssessment.safetyScore < 50
RiskSum ==
  30 + (IF RiskVolatile THEN 20 ELSE 0)
     + (IF RiskSingleAuthority THEN 15 ELSE 0)
     + (IF RiskLowSafety THEN 25 ELSE 0)
RiskIssues ==
  {sc_out.riskFactors[i].issue : i \in 1..Len(sc_out.riskFactors)}

\* C21: on well-formed inputs predictRisk returns min(100, 30 + 20 for high
\* volatility + 15 for exactly one authority insight + 25 for a safety
\* score under 50), one risk factor per condition met, and 'High risk'
\* exactly when the sum exceeds 70, else 'Low to moderate risk'; on invalid
\* inputs it returns likelihood 30 without factors.
C21_RiskFormula ==
  RiskCalled =>
    IF RiskWellFormed
    THEN /\ sc_out.riskLikelihood = (IF RiskSum > 100 THEN 100 ELSE RiskSum)
         /\ Len(sc_out.riskFactors) = Cardinality(RiskIssues)
         /\ "High transaction volume volatility" \in RiskIssues
              <=> RiskVolatile
         /\ "Single authority" \in RiskIssues <=> RiskSingleAuthority
         /\ "Low safety score" \in RiskIssues <=> RiskLowSafety
         /\ Cardinality(RiskIssues) =
              (IF RiskVolatile THEN 1 ELSE 0)
                + (IF RiskSingleAuthority THEN 1 ELSE 0)
                + (IF RiskLowSafety THEN 1 ELSE 0)
         /\ sc_out.prediction =
              (IF RiskSum > 70 THEN "High risk" ELSE "Low to moderate risk")
    ELSE /\ sc_out.riskLikelihood = 30
         /\ sc_out.riskFactors = <<>>

\* All three conditions met: 90, 'High risk', three factors.
C21_Witness ==
  /\ RiskCalled
  /\ RiskWellFormed
  /\ RiskVolatile /\ RiskSingleAuthority /\ RiskLowSafety
  /\ sc_out.riskLikelihood = 90
  /\ sc_out.prediction = "High risk"
  /\ Len(sc_out.riskFactors) = 3

\* ---- Properties of inferBehavior -----------------------------------------
BehCalled == sc_fn = "inferBehavior" /\ sc_out # NULL
BehInsights == sc_args.analysis.insights
BehEconomics == sc_args.transactionData.economicInsights
\* A full profile and full economic insights.
BehWellFormed ==
  /\ sc_args.analysis # NULL
  /\ "insights" \in DOMAIN sc_args.analysis
  /\ {"hiddenMint", "authorityHolders", "syscalls", "instructions",
      "suspectedType"} \subseteq DOMAIN BehInsights
  /\ sc_args.transactionData # NULL
  /\ "economicInsights" \in DOMAIN sc_args.transactionData
  /\ {"totalVolumeSOL", "suspiciousVolume", "transactionCount",
      "transactionTypes", "tokenFlowInsights", "transactionVolumeAnalysis"}
       \subseteq DOMAIN BehEconomics
  /\ {"swaps", "nftMints", "others"}
       \subseteq DOMAIN BehEconomics.transactionTypes
BehScamSum ==
  10 + (IF BehInsights.hiddenMint THEN 30 ELSE 0)
     + (IF 2 * BehEconomics.suspiciousVolume > BehEconomics.totalVolumeSOL
        THEN 20 ELSE 0)
     + (IF BehEconomics.transactionCount < 10
             /\ BehEconomics.totalVolumeSOL > 100 * SolUnit
        THEN 20 ELSE 0)
     + (IF Len(BehInsights.authorityHolders) = 1 THEN 10 ELSE 0)
BehLaunderingSum ==
  10 + (IF BehEconomics.tokenFlowInsights.concentrationRisk THEN 25 ELSE 0)
     + (IF BehEconomics.transactionVolumeAnalysis.highVolatility
        THEN 20 ELSE 0)
     + (IF 10 * BehEconomics.transactionTypes.others.count
             > 3 * BehEconomics.transactionCount
        THEN 15 ELSE 0)
     + (IF "sol_invoke" \in {BehInsights.syscalls[i] :
                               i \in 1..Len(BehInsights.syscalls)}
             /\ BehInsights.instructions > 500
        THEN 10 ELSE 0)
BehSwapMajority ==
  2 * BehEconomics.transactionTypes.swaps.count
    > BehEconomics.transactionCount
BehNftShare ==
  10 * BehEconomics.transactionTypes.nftMints.count
    > 3 * BehEconomics.transactionCount
ConfidenceKinds == {"governance", "amm", "nft", "unknown"}
ConfidenceOf(dist, kind) == IF kind \in DOMAIN dist THEN dist[kind] ELSE 0
ConfidenceTotal(dist) ==
  ConfidenceOf(dist, "governance") + ConfidenceOf(dist, "amm")
    + ConfidenceOf(dist, "nft") + ConfidenceOf(dist, "unknown")

\* C22: on well-formed inputs scamProbability is min(100, 10 + 30 hidden
\* mint + 20 suspicious volume over half the total + 20 fewer than 10
\* transactions with over 100 SOL + 10 exactly one authority holder),
\* launderingLikelihood is min(100, 10 + 25 concentration risk + 20 high
\* volatility + 15 others over 30% + 10 sol_invoke with over 500
\* instructions), each from its own conditions only, and the type
\* confidence goes by governance marker > swap majority > nft-mint share >
\* fallback, every distribution summing to 100.
C22_BehaviorFormula ==
  BehCalled =>
    /\ DOMAIN sc_out.programTypeConfidence \subseteq ConfidenceKinds
    /\ ConfidenceTotal(sc_out.programTypeConfidence) = 100
    /\ BehWellFormed =>
         /\ sc_out.scamProbability
              = (IF BehScamSum > 100 THEN 100 ELSE BehScamSum)
         /\ sc_out.launderingLikelihood
              = (IF BehLaunderingSum > 100 THEN 100 ELSE BehLaunderingSum)
         /\ sc_out.programTypeConfidence =
              (IF BehInsights.suspectedType = "governance"
               THEN [governance |-> 90, amm |-> 5, nft |-> 5]
               ELSE IF BehSwapMajority
               THEN [amm |-> 85, governance |-> 10, nft |-> 5]
               ELSE IF BehNftShare
               THEN [nft |-> 80, amm |-> 10, governance |-> 10]
               ELSE [unknown |-> 50, governance |-> 20, amm |-> 20,
                     nft |-> 10])

\* Swaps are the majority and nft mints exceed their share: the swap rule
\* decides, with every scam and laundering condition met.
C22_Witness ==
  /\ BehCalled
  /\ BehWellFormed
  /\ BehInsights.suspectedType # "governance"
  /\ BehSwapMajority
  /\ BehNftShare
  /\ sc_out.programTypeConfidence.amm = 85
  /\ sc_out.scamProbability = 90
  /\ sc_out.launderingLikelihood = 80

\* ---- Properties of the call graph export ---------------------------------
\* The statement the export format asks for an edge:
\* "from" -> "to" [label="action (count)"].
ExpectedEdgeStatement(edge) ==
  "\"" \o edge.from \o "\" -> \"" \o edge.to \o "\" [label=\""
    \o edge.action \o " (" \o ToString(edge.count) \o ")\"]"

\* C23: every export path emits exactly one edge statement per edge of the
\* call graph, in edge-list order and without merging parallel edges, each
\* of the form "from" -> "to" with label "action (count)".
C23_OneStatementPerEdge ==
  gv_out # NULL =>
    /\ Len(gv_out.edges) = Len(gv_callGraph.edges)
    /\ \A i \in 1..Len(gv_out.edges) :
         gv_out.edges[i] = ExpectedEdgeStatement(gv_callGraph.edges[i])

\* What every path does: one statement per edge, in edge-list order; and
\* visualizeGraph writes the label with the count.
GvOneStatementPerEdgeInOrder ==
  gv_out # NULL =>
    /\ Len(gv_out.edges) = Len(gv_callGraph.edges)
    /\ \A i \in 1..Len(gv_out.edges) :
         gv_out.edges[i] \in
           {ExpectedEdgeStatement(gv_callGraph.edges[i]),
            "\"" \o gv_callGraph.edges[i].from \o "\" -> \""
              \o gv_callGraph.edges[i].to \o "\" [label=\""
              \o gv_callGraph.edges[i].action \o "\"]"}
    /\ gv_path = "visualize-graph" =>
         \A i \in 1..Len(gv_out.edges) :
           gv_out.edges[i] = ExpectedEdgeStatement(gv_callGraph.edges[i])

\* ---- Properties of the parse phase ---------------------------------------
PpResolved == pp_out # NULL /\ ~pp_out.rejected

\* C24: the transactions list has the length and the order of the list the
\* data source returned, its i-th element derived from the i-th listed
\* entry, for every order in which the parse requests complete.
C24_OrderPreserved ==
  PpResolved =>
    /\ Len(pp_out.transactions) = Len(pp_txs)
    /\ \A i \in 1..Len(pp_txs) :
         /\ pp_out.transactions[i].signature = pp_txs[i]
         /\ pp_out.transactions[i].details =
              (IF i \in pp_known THEN Chain(pp_txs[i]) ELSE NULL)

\* Three different entries whose requests resolved last to first.
C24_Witness ==
  /\ PpResolved
  /\ Len(pp_txs) = 3
  /\ pp_txs[1] # pp_txs[2] /\ pp_txs[2] # pp_txs[3] /\ pp_txs[1] # pp_txs[3]
  /\ pp_settled = <<3, 2, 1>>
  /\ pp_out.transactions[1].signature = pp_txs[1]

\* ---- Properties of the response cache ------------------------------------
\* C25: every entry of the response cache is the result a call for exactly
\* that key computed from a successful attempt, a fallback of retry
\* exhaustion is never stored, and a call that finds a live entry for its
\* key returns it without issuing any fetch.
C25_CacheHoldsOwnKeyResults ==
  /\ \A k \in Keys :
       cache[k] # NULL =>
         \E c \in Calls :
           /\ key[c] = k
           /\ via[c] = "computed"
           /\ outcome[c] = "ok"
           /\ ret[c] = cache[k]
  /\ \A c \in Calls :
       via[c] = "fallback" =>
         \/ cache[key[c]] = NULL
         \/ \E c2 \in Calls \ {c} :
              key[c2] = key[c] /\ via[c2] = "computed" /\ cache[key[c]] = ret[c2]
  /\ \A c \in Calls :
       via[c] = "cache" =>
         /\ fetches[c] = 0
         /\ attempt[c] = 0
         /\ \E c2 \in Calls \ {c} :
              key[c2] = key[c] /\ via[c2] = "computed" /\ ret[c] = ret[c2]

\* One call stored a non-empty result and the other call, for the same key,
\* was served from the cache.
C25_Witness ==
  \E c, c2 \in Calls :
    /\ via[c] = "computed"
    /\ via[c2] = "cache"
    /\ key[c] = key[c2]
    /\ fetches[c2] = 0
    /\ cache[key[c]] = ret[c2]
    /\ Len(ret[c2].transactions) > 0

\* A call exhausted its retries while the other call stored a result for
\* another key: the exhausted call's key has no entry.
CacheSkipsFallback ==
  \E c, c2 \in Calls :
    /\ via[c] = "fallback"
    /\ via[c2] = "computed"
    /\ key[c] # key[c2]
    /\ cache[key[c]] = NULL
    /\ cache[key[c2]] # NULL

\* ---- Properties of reconstructCallGraph on malformed input ----------------
CgLacksInstructions(data) ==
  /\ data # NULL
  /\ "transactions" \in DOMAIN data
  /\ \E i \in 1..Len(data.transactions) :
       "instructions" \notin DOMAIN data.transactions[i]

\* C26: every call returns a graph (it never raises), and when the profile's
\* insights or the transaction list are missing, or one transaction has no
\* instructions list, the graph is exactly {nodes: [], edges: []}: the edges
\* of the well-formed transactions before and after it are dropped too.
C26_MalformedGivesEmptyGraph ==
  cg_out # NULL =>
    /\ DOMAIN cg_out.first = {"nodes", "edges"}
    /\ DOMAIN cg_out.second = {"nodes", "edges"}
    /\ ~CgWellFormed => cg_out.first = [nodes |-> <<>>, edges |-> <<>>]
    /\ (cg_out.joined # NULL /\ CgLacksInstructions(cg_first)) =>
         cg_out.joined = [nodes |-> <<>>, edges |-> <<>>]

\* A profile with insights and a list in which a transaction without
\* instructions stands between two that each give an edge on their own.
C26_Witness ==
  /\ cg_out # NULL
  /\ cg_analysis # NULL
  /\ "insights" \in DOMAIN cg_analysis
  /\ CgLacksInstructions(cg_first)
  /\ Len(cg_first.transactions) = 3
  /\ cg_first.transactions[1] = cg_second.transactions[1]
  /\ cg_first.transactions[3] = cg_second.transactions[1]
  /\ Len(cg_out.second.edges) = 1
  /\ cg_out.first = [nodes |-> <<>>, edges |-> <<>>]
  /\ cg_out.joined = [nodes |-> <<>>, edges |-> <<>>]

\* ---- Properties of the custom rule ----------------------------------------
ClInvokesAnalyzedProgram ==
  /\ cl_parsedTx # NULL
  /\ \E i \in 1..Len(ClIxs) : ClIxs[i].programId = cl_address

\* C27: inferTransactionType never returns custom: a transaction with an
\* instruction of the analyzed program is matched by the governance rule, a
\* token sub-type or the swap rule, so every result is governance,
\* transfer, mint, burn, swap, nft_mint or unknown.
C27_NeverCustom ==
  cl_type # "pending" =>
    /\ cl_type \in {"governance", "transfer", "mint", "burn", "swap",
                    "nft_mint", "unknown"}
    /\ ClInvokesAnalyzedProgram =>
         cl_type \in {"governance", "transfer", "mint", "burn", "swap"}

\* An instruction of the analyzed program, which is no swap venue, next to
\* an nft marker and no governance or token instruction: the kind is swap.
C27_Witness ==
  /\ cl_type = "swap"
  /\ cl_address = PROGRAM_A
  /\ ClInvokesAnalyzedProgram
  /\ ClHasNftMarker
  /\ \A i \in 1..Len(ClIxs) :
       ClIxs[i].programId \notin {RAYDIUM_PROGRAM, PUMP_PROGRAM}

\* ---- Properties of the degraded safety assessment --------------------------
\* The inputs assessSafety cannot assess.
SafetyCannotAssess ==
  \/ sc_args.analysis = NULL
  \/ "insights" \notin DOMAIN sc_args.analysis
  \/ sc_args.transactionData = NULL
  \/ "economicInsights" \notin DOMAIN sc_args.transactionData
  \/ sc_args.authorityInsights = NULL
  \/ sc_args.callGraph = NULL
  \/ "edges" \notin DOMAIN sc_args.callGraph

\* The penalty that goes with a risk entry.
SafetyPenalty(risk) ==
  CASE risk.issue = "Potential unchecked minting" -> 20
    [] risk.issue = "Single authority" -> 10
    [] risk.issue = "High suspicious volume" -> 15
    [] risk.issue = "Complex interactions" -> 10

\* C28: when assessSafety cannot assess it returns exactly
\* {safetyScore: 50, risks: []}; every computed result has safetyScore = 80
\* minus the penalties of the entries of its risks list, so a computed 50
\* has exactly two risk entries, a computed result without risks has 80,
\* and no computed result equals the degraded one.
C28_DegradedDistinguishable ==
  (sc_fn = "assessSafety" /\ sc_out # NULL) =>
    IF SafetyCannotAssess
    THEN sc_out = [safetyScore |-> 50, risks |-> <<>>]
    ELSE /\ sc_out.safetyScore = 80 - Sum(sc_out.risks, SafetyPenalty)
         /\ sc_out.safetyScore = 50 => Len(sc_out.risks) = 2
         /\ sc_out.risks = <<>> => sc_out.safetyScore = 80
         /\ sc_out # [safetyScore |-> 50, risks |-> <<>>]

\* A computed 50: hidden minting and a graph of more than 50 edges.
C28_Witness ==
  /\ sc_fn = "assessSafety"
  /\ sc_out # NULL
  /\ ~SafetyCannotAssess
  /\ sc_out.safetyScore = 50
  /\ Len(sc_out.risks) = 2
  /\ sc_out.risks[2].issue = "Complex interactions"

\* A profile with hidden minting and one authority assessed without a call
\* graph: the degraded result, without the two risks.
SafetyDegradedDropsRisks ==
  /\ sc_fn = "assessSafety"
  /\ sc_out = [safetyScore |-> 50, risks |-> <<>>]
  /\ Has2(sc_args.analysis, "insights", "hiddenMint")
  /\ sc_args.analysis.insights.hiddenMint
  /\ sc_args.authorityInsights # NULL
  /\ Len(sc_args.authorityInsights.items) = 1
  /\ Has(sc_args.transactionData, "economicInsights")
  /\ sc_args.callGraph = NULL

\* ---- Properties of the report's risk assessment ----------------------------
ReportComposed ==
  /\ rp_out # NULL
  /\ ~generateAuditReportThrows(rp_args.analysis, rp_args.authorityInsights,
                                rp_args.transactionData, rp_args.callGraph,
                                rp_args.vulnerabilities,
                                rp_args.safetyAssessment)
ReportFindingsOf(severity) ==
  {i \in 1..Len(rp_args.vulnerabilities.items) :
     /\ "severity" \in DOMAIN rp_args.vulnerabilities.items[i]
     /\ rp_args.vulnerabilities.items[i].severity = severity}

\* C29: in every composed report totalRisks = riskScoreBreakdown.high +
\* riskScoreBreakdown.moderate, prioritizedRisks has every High entry before
\* every Moderate one, and the Critical and Low findings are counted in
\* riskScoreBreakdown and absent from prioritizedRisks.
C29_PrioritizedRisksOrdered ==
  ReportComposed =>
    LET ra == rp_out.value.riskAssessment
        b == ra.riskScoreBreakdown
        p == ra.prioritizedRisks
    IN /\ ra.totalRisks = b.high + b.moderate
       /\ ra.totalRisks = Len(p)
       /\ \A i, j \in 1..Len(p) :
            (p[i].severity = "Moderate" /\ p[j].severity = "High") => j < i
       /\ \A i \in 1..Len(p) : p[i].severity \in {"High", "Moderate"}
       /\ b.critical = Cardinality(ReportFindingsOf("Critical"))
       /\ b.low = Cardinality(ReportFindingsOf("Low"))

\* Findings listed Moderate, Critical, High and risks of both kinds: five
\* prioritized entries, the High finding first, the Critical one counted.
C29_Witness ==
  /\ ReportComposed
  /\ Len(rp_args.vulnerabilities.items) = 3
  /\ rp_args.vulnerabilities.items[1].severity = "Moderate"
  /\ rp_out.value.riskAssessment.totalRisks = 5
  /\ rp_out.value.riskAssessment.riskScoreBreakdown.critical = 1
  /\ rp_out.value.riskAssessment.riskScoreBreakdown.high = 2
  /\ rp_out.value.riskAssessment.prioritizedRisks[1].severity = "High"
  /\ rp_out.value.riskAssessment.prioritizedRisks[5].severity = "Moderate"

\* ---- Properties of the authority list in the orchestrated runs -------------
\* analyzeBinary succeeded: the profile carries the one candidate holder.
RunProfiled ==
  /\ rn_val.analysis # NULL
  /\ Len(rn_val.analysis.insights.authorityHolders) = 1

\* The authority list that reaches the later stages is empty, no result
\* carries the single-authority entry, and the governance is Centralized.
RunAuthorityListEmpty ==
  /\ rn_val.authorityInsights # NULL =>
       rn_val.authorityInsights = [items |-> <<>>]
  /\ rn_val.safetyAssessment # NULL =>
       \A i \in 1..Len(rn_val.safetyAssessment.risks) :
         rn_val.safetyAssessment.risks[i].issue # "Single authority"
  /\ rn_val.riskPrediction # NULL =>
       \A i \in 1..Len(rn_val.riskPrediction.riskFactors) :
         rn_val.riskPrediction.riskFactors[i].issue # "Single authority"
  /\ rn_val.governance # NULL =>
       /\ rn_val.governance.type = "Centralized"
       /\ rn_val.governance.trustScore \in {50, 60}

\* scamProbability with the single-authority increment in it.
RunScamWithIncrement ==
  LET e == rn_val.transactionData.economicInsights IN
  10 + 10
     + (IF rn_val.analysis.insights.hiddenMint THEN 30 ELSE 0)
     + (IF 2 * e.suspiciousVolume > e.totalVolumeSOL THEN 20 ELSE 0)
     + (IF e.transactionCount < 10 /\ e.totalVolumeSOL > 100 * SolUnit
        THEN 20 ELSE 0)

\* The transaction data is what getRecentTransactions returned, not the
\* fallback argument of its await.
RunTransactionsReturned ==
  /\ "economicInsights" \in DOMAIN rn_val.transactionData
  /\ "tokenFlowInsights" \in DOMAIN rn_val.transactionData.economicInsights

\* C30: in every run in which analyzeBinary succeeds the
\* authority list that reaches assessSafety, inferGovernance and predictRisk
\* is empty, and inferBehavior always applies its single-authority increment.
C30_IncrementAlwaysApplied ==
  RunProfiled =>
    /\ RunAuthorityListEmpty
    /\ rn_val.behavior # NULL => rn_val.behavior.scamProbability >= 20

\* What does hold: the authority list that reaches the later stages is
\* always empty; inferBehavior applies the increment when the transaction
\* data is what getRecentTransactions returned, and returns its own
\* fallback, with scamProbability 10, when the transaction fetch rejected
\* and the await gave its fallback argument.
RunIncrementWhenTransactionsReturned ==
  RunProfiled =>
    /\ RunAuthorityListEmpty
    /\ rn_val.behavior # NULL =>
         IF RunTransactionsReturned
         THEN rn_val.behavior.scamProbability = RunScamWithIncrement
         ELSE rn_val.behavior =
                [scamProbability |-> 10, launderingLikelihood |-> 10,
                 programTypeConfidence |-> [unknown |-> 100]]

\* An analyze run to its end with the API key set and transactions found:
\* one candidate holder, no authority insight, a safety assessment without
\* the single-authority risk, a scam probability with the increment.
RunAnalyzeToEnd ==
  /\ rn_command = "analyze"
  /\ rn_key
  /\ RunProfiled
  /\ rn_val.safetyAssessment # NULL
  /\ rn_val.authorityInsights = [items |-> <<>>]
  /\ Len(rn_val.transactionData.transactions) > 0
  /\ rn_val.behavior.scamProbability = 20

\* A governance run and a predict-risk run to their ends.
RunGovernanceCentralized ==
  /\ rn_command = "governance"
  /\ RunProfiled
  /\ rn_val.governance # NULL
  /\ rn_val.governance.type = "Centralized"
RunRiskWithoutAuthorityDelta ==
  /\ rn_command = "predict-risk"
  /\ rn_key
  /\ RunProfiled
  /\ rn_val.riskPrediction # NULL
  /\ rn_val.riskPrediction.riskLikelihood = 30
  /\ rn_val.authorityInsights = [items |-> <<>>]

====
